---- MODULE Spec2Model ----
(***************************************************************************)
(* A model of ws-sync: the Session (connection lifecycle, event dispatch)  *)
(* and the Sync engine (snapshot, patch, actions, tasks, registration).    *)
(* Every coroutine of the program is a process of the model; a step of the *)
(* model is the code a coroutine runs between two awaits.                  *)
(***************************************************************************)
EXTENDS Integers, Sequences, FiniteSets, TLC

\* ------------------------------------------------------------------ bounds
MaxTransports == 3
MaxEvents == 3
MaxSyncs == 2
MaxHandles == 2
MaxVal == 1
MaxCloseCalls == 3
MaxLen == 3
MaxSets == 2
MaxTasks == 2
MaxDepth == 3
MaxLists == 3
MaxSessions == 2
MaxEnters == 3

None == 0
Transports == 1..MaxTransports
SyncIds == 1..MaxSyncs
Handles == 1..MaxHandles
Values == 0..MaxVal
Keys == {"A", "B"}
Attrs == {"first_name", "value"}
TaskNames == {"T", "U"}
ActionNames == {"act"}
\* a name that is neither a declared action nor a declared task
Undeclared == "zap"

VARIABLES
    ws,              \* Session.ws: the attached transport, or None
    ws_lock,         \* Session.ws_lock: the coroutine holding it, or None
    event_handlers,  \* Session.event_handlers: event name -> owning Sync
    init_handlers,   \* Session.init_handlers: sequence of Syncs (their _send_state)
    transport,       \* the WebSocket objects: application_state, the peer, what was sent
    conn,            \* the handle_connection coroutines, one per transport
    reg,             \* the Sync objects: key, flags, whether constructed / closed
    obj,             \* the target objects' observed attributes
    state_snapshot,  \* Sync.state_snapshot
    last_sync,       \* Sync._last_sync is set
    running_tasks,   \* Sync.running_tasks: task name -> handle, or None
    task,            \* the asyncio.Task handles created by _create_task
    client,          \* what the peer of each transport holds, per sync key
    user,            \* the application and the environment: close() calls made, send faults
    last,            \* the effect of the last Sync operation (observation only)
    context,         \* per task: the values of session_context and _sync_key_prefix_stack
    frame,           \* per task: whether it runs, and the `with` blocks it is inside
    _tokens,         \* Session._tokens of every Session
    heap,            \* the list objects created by sync_key_scope.__enter__
    sessions,        \* several Session objects: the ws and event_handlers of each
    session          \* Sync.session: the Session a Sync was constructed under

vars == <<ws, ws_lock, event_handlers, init_handlers, transport, conn, reg, obj,
          state_snapshot, last_sync, running_tasks, task, client, user, last,
          context, frame, _tokens, heap, sessions, session>>

ctxvars == <<context, frame, _tokens, heap, sessions, session>>

\* ------------------------------------------------------------ event names
set_event(key) == <<"_SET", key>>
get_event(key) == <<"_GET", key>>
patch_event(key) == <<"_PATCH", key>>
action_event(key) == <<"_ACTION", key>>
task_start_event(key) == <<"_TASK_START", key>>
task_cancel_event(key) == <<"_TASK_CANCEL", key>>

toast_event == <<"_TOAST", "none">>
bin_meta_event == <<"_BIN_META", "none">>

SixEvents(key) ==
    {get_event(key), set_event(key), patch_event(key), action_event(key),
     task_start_event(key), task_cancel_event(key)}

\* ------------------------------------------------------------- JSON patch
\* A document is a function from wire keys to values; the value under the
\* task-exposure key is a sequence of task names, every other value a number.
Restrict(f, S) == [k \in S |-> f[k]]

RECURSIVE CommonPrefix(_, _)
CommonPrefix(a, b) ==
    IF a = <<>> \/ b = <<>> \/ Head(a) # Head(b) THEN 0
    ELSE 1 + CommonPrefix(Tail(a), Tail(b))

Reverse(s) == [i \in 1..Len(s) |-> s[Len(s) + 1 - i]]

\* the operations that turn list a into list b under `key` (paths are 0-based)
ListOps(key, a, b) ==
    LET p == CommonPrefix(a, b)
        ra == Reverse(SubSeq(a, p + 1, Len(a)))
        rb == Reverse(SubSeq(b, p + 1, Len(b)))
        q == CommonPrefix(ra, rb)
        dels == [i \in 1..(Len(a) - p - q) |->
                    [op |-> "remove", path |-> <<key, Len(a) - q - i>>, value |-> 0]]
        adds == [i \in 1..(Len(b) - p - q) |->
                    [op |-> "add", path |-> <<key, p + i - 1>>, value |-> b[p + i]]]
    IN dels \o adds

RECURSIVE KeyOps(_, _, _)
KeyOps(ks, old, new) ==
    IF ks = {} THEN <<>>
    ELSE LET k == CHOOSE x \in ks : TRUE
             ops == IF k \notin DOMAIN new
                        THEN <<[op |-> "remove", path |-> <<k>>, value |-> 0] >>
                    ELSE IF k \notin DOMAIN old
                        THEN <<[op |-> "add", path |-> <<k>>, value |-> new[k]] >>
                    ELSE IF old[k] = new[k] THEN <<>>
                    ELSE IF k \in {"running_tasks", "runningTasks"}
                        THEN ListOps(k, old[k], new[k])
                    ELSE <<[op |-> "replace", path |-> <<k>>, value |-> new[k]] >>
         IN ops \o KeyOps(ks \ {k}, old, new)

make_patch(old, new) == KeyOps(DOMAIN old \cup DOMAIN new, old, new)

InsertAt(s, i, v) == SubSeq(s, 1, i) \o <<v>> \o SubSeq(s, i + 1, Len(s))
RemoveAt(s, i) == SubSeq(s, 1, i) \o SubSeq(s, i + 2, Len(s))

\* one operation applied to a document; the path is <<key>> or <<key, index>>
ApplyOp(doc, o) ==
    LET k == o.path[1] IN
    IF Len(o.path) = 1 THEN
        IF o.op = "remove" THEN Restrict(doc, DOMAIN doc \ {k})
        ELSE [x \in DOMAIN doc \cup {k} |-> IF x = k THEN o.value ELSE doc[x]]
    ELSE
        LET i == o.path[2] IN
        [doc EXCEPT ![k] = IF o.op = "remove" THEN RemoveAt(@, i)
                           ELSE IF o.op = "add" THEN InsertAt(@, i, o.value)
                           ELSE [@ EXCEPT ![i + 1] = o.value]]

RECURSIVE apply_patch(_, _)
apply_patch(doc, patch) ==
    IF patch = <<>> THEN doc ELSE apply_patch(ApplyOp(doc, Head(patch)), Tail(patch))

\* ------------------------------------------------------------------- Sync
to_camel(name) ==
    IF name = "first_name" THEN "firstName"
    ELSE IF name = "running_tasks" THEN "runningTasks"
    ELSE name

Case(camel, attr) == IF camel THEN to_camel(attr) ELSE attr

\* running_tasks is a dict: a sequence of <<name, handle>> with one entry per
\* name, in insertion order
rt_names(rt) == [i \in 1..Len(rt) |-> rt[i][1]]
rt_has(rt, name) == \E i \in 1..Len(rt) : rt[i][1] = name
rt_get(rt, name) ==
    IF rt_has(rt, name) THEN rt[CHOOSE i \in 1..Len(rt) : rt[i][1] = name][2] ELSE None
rt_set(rt, name, h) ==
    IF rt_has(rt, name)
    THEN [i \in 1..Len(rt) |-> IF rt[i][1] = name THEN <<name, h>> ELSE rt[i]]
    ELSE Append(rt, <<name, h>>)
rt_pop(rt, name) == SelectSeq(rt, LAMBDA e : e[1] # name)

\* Sync._snapshot of a target with attributes ob while the dict of running
\* tasks is rt, for a Sync with the given casing and task exposure
SnapshotWith(camel, expose, ob, rt) ==
    LET wire == {Case(camel, a) : a \in Attrs}
        fields == [k \in wire |-> ob[CHOOSE a \in Attrs : Case(camel, a) = k]]
        exposure == Case(camel, "running_tasks")
    IN IF expose
       THEN [k \in wire \cup {exposure} |->
                IF k = exposure THEN rt_names(rt) ELSE fields[k]]
       ELSE fields

SnapshotOf(s, ob, rt) == SnapshotWith(reg[s].camel, reg[s].expose, ob, rt)

_snapshot(s) == SnapshotOf(s, obj[s], running_tasks[s])

\* ---------------------------------------------------------------- the peer
NoDoc == [has |-> FALSE, doc |-> <<>>]

OpApplies(doc, o) ==
    /\ o.path[1] \in DOMAIN doc \/ (Len(o.path) = 1 /\ o.op = "add")
    /\ Len(o.path) = 2 =>
          LET n == Len(doc[o.path[1]]) IN
          IF o.op = "add" THEN o.path[2] <= n ELSE o.path[2] < n

RECURSIVE PatchApplies(_, _)
PatchApplies(doc, patch) ==
    \/ patch = <<>>
    \/ /\ OpApplies(doc, Head(patch))
       /\ PatchApplies(ApplyOp(doc, Head(patch)), Tail(patch))

\* the peer of transport t receives one message and applies it
ClientRecv(cl, t, event, data) ==
    LET k == event[2] IN
    IF event[1] = "_SET" THEN [cl EXCEPT ![t][k] = [has |-> TRUE, doc |-> data]]
    ELSE IF event[1] = "_PATCH" /\ cl[t][k].has /\ PatchApplies(cl[t][k].doc, data)
        THEN [cl EXCEPT ![t][k].doc = apply_patch(@, data)]
    ELSE cl

\* ---------------------------------------------------------------- Session
is_connected == ws # None

\* what send_json can do: deliver (TRUE) or raise (FALSE); it always raises on
\* a transport that is not connected, and user.faults says whether it can
\* also raise on a live one (data that json.dumps rejects)
SendOutcomes == IF user.faults THEN BOOLEAN ELSE {TRUE}

Alive(tr, t) == tr[t].app = "CONNECTED" /\ tr[t].peer

\* Session.send on slot w: the message reaches the peer, or send_json raises
\* and the error is logged and swallowed; with no transport nothing is sent
send(cl, tr, w, event, data, ok) ==
    IF w # None /\ ok /\ Alive(tr, w) THEN ClientRecv(cl, w, event, data) ELSE cl

\* send_json raises inside Session.send (lines 107-111)
SendRaises(tr, w, ok) == w # None /\ ~(ok /\ Alive(tr, w))

\* a registration that keeps the first subscriber of a name
RegisterKeep(eh, event, s) ==
    [e \in DOMAIN eh \cup {event} |-> IF e \in DOMAIN eh THEN eh[e] ELSE s]

register_event(eh, event, s) ==
    [e \in DOMAIN eh \cup {event} |-> IF e = event THEN s ELSE eh[e]]

deregister_event(eh, event) ==
    IF event \notin DOMAIN eh THEN eh ELSE Restrict(eh, DOMAIN eh \ {event})

register_init(ih, s) == Append(ih, s)

\* --------------------------------------------- Session.handle_connection
\* pc of a handle_connection coroutine: the await it is suspended at.
\*   idle        not called yet
\*   nc_lock     new_connection: waiting for ws_lock
\*   nc_send     disconnect: awaiting send("_DISCONNECT")
\*   nc_close    disconnect: awaiting ws.close()
\*   nc_accept   new_connection: awaiting ws.accept()
\*   nc_init     init: awaiting the init handler number idx
\*   on_connect  awaiting state.on_connect
\*   recv        awaiting ws.receive_json() on transport rt
\*   handler     awaiting the dispatched handler (h: what the handler awaits)
\*   finally     the loop has ended: awaiting state.on_disconnect
\*   closing     the slot is cleared: awaiting ws.close()
\*   done        returned
\*   failed      new_connection raised
\*   unattached  new_connection returned, the assertion of line 136 failed
IdleConn ==
    [pc |-> "idle", rt |-> None, idx |-> 0, old |-> None, inits |-> <<>>,
     n |-> 0, h |-> "none", hs |-> None, onc |-> 0, ond |-> 0,
     event |-> <<>>, metadata |-> <<>>]

\* the loop has ended: the finally clause invokes state.on_disconnect
\* (lines 170-173); onc and ond count the invocations of state.on_connect
\* and state.on_disconnect by the call
Finally(cr) == [cr EXCEPT !.pc = "finally", !.ond = @ + 1]

ConnFrame ==
    UNCHANGED <<event_handlers, init_handlers, reg, obj, last_sync, running_tasks,
                task, user, ctxvars>>

\* the while condition of the receive loop, with slot w (lines 146-147), and
\* the except clauses that end the loop (lines 164-169)
EnterLoop(cr, w, tr) ==
    IF w = None THEN Finally(cr)
    ELSE IF tr[w].app = "CONNECTED" THEN [cr EXCEPT !.pc = "recv", !.rt = w]
    ELSE Finally(cr)

SendStored(s, w, tr, ok) ==
    /\ client' = send(client, tr, w, set_event(reg[s].key), state_snapshot[s], ok)
    /\ last' = [op |-> "set", s |-> s, skipped |-> FALSE,
                prev |-> state_snapshot[s], new |-> state_snapshot[s],
                sent |-> IF w # None THEN <<state_snapshot[s]>> ELSE <<>>,
                raised |-> SendRaises(tr, w, ok)]
    /\ UNCHANGED state_snapshot

\* Sync._send_state lines 570-571 up to the await of the send, with slot w
_send_state(s, w, tr, ok) ==
    /\ state_snapshot' = [state_snapshot EXCEPT ![s] = _snapshot(s)]
    /\ client' = send(client, tr, w, set_event(reg[s].key), _snapshot(s), ok)
    /\ last' = [op |-> "set", s |-> s, skipped |-> FALSE,
                prev |-> state_snapshot[s], new |-> _snapshot(s),
                sent |-> IF w # None THEN <<_snapshot(s)>> ELSE <<>>,
                raised |-> SendRaises(tr, w, ok)]

\* Session.init from handler number i on, with slot w; when the list is
\* exhausted new_connection returns and handle_connection goes on (line 135)
InitNext(c, i, w, tr) ==
    IF i < Len(init_handlers) THEN
        LET s == init_handlers[i + 1] IN
        \E ok \in SendOutcomes :
            /\ _send_state(s, w, tr, ok)
            /\ conn' = [conn EXCEPT ![c].pc = "nc_init", ![c].idx = i + 1,
                                    ![c].inits = Append(@, s)]
            /\ transport' = tr
    ELSE
        /\ conn' = IF w = None THEN [conn EXCEPT ![c].pc = "unattached"]
                   ELSE [conn EXCEPT ![c].pc = "on_connect", ![c].onc = @ + 1]
        /\ transport' = tr
        /\ UNCHANGED <<state_snapshot, client, last>>

\* new_connection lines 74-79: store the transport, release the lock, accept
NcAttach(c, tr) ==
    /\ ws' = c
    /\ ws_lock' = None
    /\ IF tr[c].app = "CONNECTING"
       THEN /\ conn' = [conn EXCEPT ![c].pc = "nc_accept"]
            /\ transport' = tr
            /\ UNCHANGED <<state_snapshot, client, last>>
       ELSE InitNext(c, 0, c, tr)

\* new_connection lines 65-73 once the lock is held; disconnect lines 90-94
NcLocked(c, tr) ==
    IF ws # None
    THEN /\ ws_lock' = c
         /\ transport' = [tr EXCEPT ![ws].bye = TRUE]
         /\ conn' = [conn EXCEPT ![c].pc = "nc_send", ![c].old = ws]
         /\ UNCHANGED <<ws, state_snapshot, client, last>>
    ELSE NcAttach(c, tr)

\* the host hands transport c to handle_connection, accepted already or not
HandleConnection(c) ==
    /\ conn[c].pc = "idle"
    /\ \A x \in Transports : x < c => conn[x].pc # "idle"
    /\ \E accepted \in BOOLEAN :
         LET tr == [transport EXCEPT
                       ![c].app = IF accepted THEN "CONNECTED" ELSE "CONNECTING"]
         IN IF ws_lock # None
            THEN /\ conn' = [conn EXCEPT ![c].pc = "nc_lock"]
                 /\ transport' = tr
                 /\ UNCHANGED <<ws, ws_lock, state_snapshot, client, last>>
            ELSE NcLocked(c, tr)
    /\ ConnFrame

NcAcquire(c) ==
    /\ conn[c].pc = "nc_lock"
    /\ ws_lock = None
    /\ NcLocked(c, transport)
    /\ ConnFrame

\* disconnect lines 95-97: the send has returned
NcSent(c) ==
    /\ conn[c].pc = "nc_send"
    /\ IF ws = None
       THEN /\ conn' = [conn EXCEPT ![c].pc = "failed"]
            /\ ws_lock' = None
            /\ UNCHANGED transport
       ELSE /\ conn' = [conn EXCEPT ![c].pc = "nc_close"]
            /\ transport' = [transport EXCEPT ![ws].app = "DISCONNECTED"]
            /\ UNCHANGED ws_lock
    /\ UNCHANGED <<ws, state_snapshot, client, last>>
    /\ ConnFrame

\* disconnect line 98, then new_connection line 74
NcClosed(c) ==
    /\ conn[c].pc = "nc_close"
    /\ NcAttach(c, transport)
    /\ ConnFrame

\* ws.accept() has returned (it raises on a transport closed meanwhile)
NcAccepted(c) ==
    /\ conn[c].pc = "nc_accept"
    /\ IF transport[c].app = "DISCONNECTED"
       THEN /\ conn' = [conn EXCEPT ![c].pc = "failed"]
            /\ UNCHANGED <<transport, state_snapshot, client, last>>
       ELSE InitNext(c, 0, ws, [transport EXCEPT ![c].app = "CONNECTED"])
    /\ UNCHANGED <<ws, ws_lock>>
    /\ ConnFrame

NcInitResume(c) ==
    /\ conn[c].pc = "nc_init"
    /\ InitNext(c, conn[c].idx, ws, transport)
    /\ UNCHANGED <<ws, ws_lock>>
    /\ ConnFrame

\* state.on_connect has returned or raised (lines 138-146)
OnConnect(c) ==
    /\ conn[c].pc = "on_connect"
    /\ conn' = [conn EXCEPT ![c] =
                    EnterLoop([@ EXCEPT !.idx = 0, !.old = None, !.inits = <<>>],
                              ws, transport)]
    /\ UNCHANGED <<ws, ws_lock, transport, state_snapshot, client, last>>
    /\ ConnFrame

\* receive_json raises: the peer is gone or the transport was closed
RecvDisconnect(c) ==
    /\ conn[c].pc = "recv"
    /\ ~Alive(transport, conn[c].rt)
    /\ conn' = [conn EXCEPT ![c] = Finally(@)]
    /\ UNCHANGED <<ws, ws_lock, transport, state_snapshot, client, last>>
    /\ ConnFrame

\* the client goes away
PeerDrop(t) ==
    /\ Alive(transport, t)
    /\ transport' = [transport EXCEPT ![t].peer = FALSE]
    /\ UNCHANGED <<ws, ws_lock, conn, state_snapshot, client, last>>
    /\ ConnFrame

CleanupKeepsSlot(c) ==
    /\ conn[c].pc = "finally"
    /\ conn' = [conn EXCEPT ![c].pc = "closing"]
    /\ UNCHANGED <<ws, transport, ws_lock, state_snapshot, client, last>>
    /\ ConnFrame

\* the finally clause, lines 177-181, up to the await of ws.close(), which
\* marks the transport closed before it suspends; with nothing attached the
\* call returns
Cleanup(c) ==
    /\ conn[c].pc = "finally"
    /\ ws' = None
    /\ transport' = IF ws = None THEN transport
                    ELSE [transport EXCEPT ![ws].app = "DISCONNECTED"]
    /\ conn' = [conn EXCEPT ![c] =
                    [IdleConn EXCEPT !.pc = IF ws = None THEN "done" ELSE "closing",
                                     !.rt = IF ws = None THEN None ELSE conn[c].rt,
                                     !.onc = conn[c].onc, !.ond = conn[c].ond]]
    /\ UNCHANGED <<ws_lock, state_snapshot, client, last>>
    /\ ConnFrame

\* ws.close() has returned or raised (line 181): handle_connection returns
Closed(c) ==
    /\ conn[c].pc = "closing"
    /\ conn' = [conn EXCEPT ![c].pc = "done", ![c].rt = None]
    /\ UNCHANGED <<ws, ws_lock, transport, state_snapshot, client, last>>
    /\ ConnFrame

\* -------------------------------------------------- Sync.sync, _send_state
\* Sync.sync lines 426-438 up to the await of the send, called while the dict
\* of running tasks is rt; throttled: if_since_last is given and not elapsed
SyncSkips(throttled) == ~is_connected \/ throttled

SyncPatch(s, rt) == make_patch(state_snapshot[s], SnapshotOf(s, obj[s], rt))

SyncSuspends(s, rt, throttled) == ~SyncSkips(throttled) /\ SyncPatch(s, rt) # <<>>

\* the operation before this one was a suppressed sync() of the same Sync
AfterSkip(s) == last.op = "sync" /\ last.s = s /\ last.skipped

\* a sync() whose throttle check comes after the snapshot is replaced
SyncThrottleStores(s, rt, throttled, ok) ==
    LET new == SnapshotOf(s, obj[s], rt)
        patch == SyncPatch(s, rt)
        skip == SyncSkips(throttled)
    IN /\ throttled => last_sync[s]
       /\ state_snapshot' = IF ~is_connected THEN state_snapshot
                            ELSE [state_snapshot EXCEPT ![s] = new]
       /\ client' = IF skip \/ patch = <<>> THEN client
                    ELSE send(client, transport, ws, patch_event(reg[s].key), patch, ok)
       /\ last' = [op |-> "sync", s |-> s, skipped |-> skip,
                   after_skip |-> AfterSkip(s),
                   prev |-> state_snapshot[s], new |-> new,
                   sent |-> IF skip \/ patch = <<>> THEN <<>> ELSE <<patch>>,
                   raised |-> ~skip /\ patch # <<>> /\ SendRaises(transport, ws, ok)]

SyncKeepsSnapshot(s, rt, throttled, ok) ==
    LET new == SnapshotOf(s, obj[s], rt)
        patch == SyncPatch(s, rt)
        skip == SyncSkips(throttled)
    IN /\ throttled => last_sync[s]
       /\ state_snapshot' = state_snapshot
       /\ client' = IF skip \/ patch = <<>> THEN client
                    ELSE send(client, transport, ws, patch_event(reg[s].key), patch, ok)
       /\ last' = [op |-> "sync", s |-> s, skipped |-> skip,
                   after_skip |-> AfterSkip(s),
                   prev |-> state_snapshot[s], new |-> new,
                   sent |-> IF skip \/ patch = <<>> THEN <<>> ELSE <<patch>>,
                   raised |-> ~skip /\ patch # <<>> /\ SendRaises(transport, ws, ok)]

\* a sync() that replaces the snapshot before its early returns
SyncAlwaysStores(s, rt, throttled, ok) ==
    LET new == SnapshotOf(s, obj[s], rt)
        patch == SyncPatch(s, rt)
        skip == SyncSkips(throttled)
    IN /\ throttled => last_sync[s]
       /\ state_snapshot' = [state_snapshot EXCEPT ![s] = new]
       /\ client' = IF skip \/ patch = <<>> THEN client
                    ELSE send(client, transport, ws, patch_event(reg[s].key), patch, ok)
       /\ last' = [op |-> "sync", s |-> s, skipped |-> skip,
                   after_skip |-> AfterSkip(s),
                   prev |-> state_snapshot[s], new |-> new,
                   sent |-> IF skip \/ patch = <<>> THEN <<>> ELSE <<patch>>,
                   raised |-> ~skip /\ patch # <<>> /\ SendRaises(transport, ws, ok)]

sync(s, rt, throttled, ok) ==
    LET new == SnapshotOf(s, obj[s], rt)
        patch == SyncPatch(s, rt)
        skip == SyncSkips(throttled)
    IN /\ throttled => last_sync[s]
       /\ state_snapshot' = IF skip THEN state_snapshot
                            ELSE [state_snapshot EXCEPT ![s] = new]
       /\ client' = IF skip \/ patch = <<>> THEN client
                    ELSE send(client, transport, ws, patch_event(reg[s].key), patch, ok)
       /\ last' = [op |-> "sync", s |-> s, skipped |-> skip,
                   after_skip |-> AfterSkip(s),
                   prev |-> state_snapshot[s], new |-> new,
                   sent |-> IF skip \/ patch = <<>> THEN <<>> ELSE <<patch>>,
                   raised |-> ~skip /\ patch # <<>> /\ SendRaises(transport, ws, ok)]

\* ------------------------------------------------ the dispatched handlers
Returned(c, cr) ==
    conn' = [conn EXCEPT ![c] =
                EnterLoop([cr EXCEPT !.h = "none", !.hs = None], ws, transport)]

Raised(c, cr) ==
    conn' = [conn EXCEPT ![c] = Finally([cr EXCEPT !.h = "none", !.hs = None])]

Suspended(c, cr, h, s) ==
    conn' = [conn EXCEPT ![c] = [cr EXCEPT !.pc = "handler", !.h = h, !.hs = s]]

\* validator.validate_python raises (sync.py 661, 719)
Invalid(c, cr, s, e) ==
    /\ Raised(c, cr)
    /\ last' = [op |-> "validation_error", s |-> s, name |-> e.name]

ActionStrict(c, cr, s, e) ==
    /\ IF e.name \notin ActionNames \/ ~e.valid THEN Invalid(c, cr, s, e)
       ELSE Suspended(c, cr, "user", s) /\ UNCHANGED last
    /\ UNCHANGED <<task, running_tasks, state_snapshot, client>>

\* _handle_action lines 656-683: an undeclared action is ignored with a
\* warning, invalid kwargs raise, otherwise the user's handler is awaited
_handle_action(c, cr, s, e) ==
    /\ IF e.name \notin ActionNames
       THEN /\ Returned(c, cr)
            /\ last' = [op |-> "ignored", s |-> s, name |-> e.name, type |-> e.type]
       ELSE IF ~e.valid THEN Invalid(c, cr, s, e)
       ELSE Suspended(c, cr, "user", s) /\ UNCHANGED last
    /\ UNCHANGED <<task, running_tasks, state_snapshot, client>>

GetHandler(c, cr, s) ==
    /\ \E ok \in SendOutcomes : _send_state(s, ws, transport, ok)
    /\ IF is_connected THEN Suspended(c, cr, "get_send", s) ELSE Returned(c, cr)
    /\ UNCHANGED <<task, running_tasks>>

FreeHandles == {h \in Handles : task[h].st = "free"}

NewTask(s, name) ==
    [st |-> "created", s |-> s, name |-> name, cancel |-> FALSE, end |-> "none",
     handled |-> 0]

Ignored(c, cr, s, e) ==
    /\ Returned(c, cr)
    /\ last' = [op |-> "ignored", s |-> s, name |-> e.name, type |-> e.type]
    /\ UNCHANGED <<task, running_tasks, state_snapshot, client>>

SpawnAwaited(c, cr, s, e) ==
    /\ FreeHandles # {}
    /\ LET h == CHOOSE x \in FreeHandles : \A y \in FreeHandles : x <= y
       IN /\ task' = [task EXCEPT ![h] = NewTask(s, e.name)]
          /\ running_tasks' = [running_tasks EXCEPT
                                  ![s] = rt_set(running_tasks[s], e.name, h)]
          /\ Suspended(c, cr, "task", s)
          /\ UNCHANGED <<state_snapshot, client, last>>

\* _create_task lines 731-744: create the task, store its handle, sync
Spawn(c, cr, s, e) ==
    /\ FreeHandles # {}
    /\ LET h == CHOOSE x \in FreeHandles : \A y \in FreeHandles : x <= y
           rt == rt_set(running_tasks[s], e.name, h)
       IN /\ task' = [task EXCEPT ![h] = NewTask(s, e.name)]
          /\ running_tasks' = [running_tasks EXCEPT ![s] = rt]
          /\ IF reg[s].expose
             THEN /\ \E ok \in SendOutcomes : sync(s, rt, FALSE, ok)
                  /\ IF SyncSuspends(s, rt, FALSE)
                     THEN Suspended(c, cr, "start_send", s)
                     ELSE Returned(c, cr)
             ELSE /\ Returned(c, cr)
                  /\ UNCHANGED <<state_snapshot, client, last>>

CreateUnvalidated(c, cr, s, e) ==
    IF e.name \notin TaskNames THEN Ignored(c, cr, s, e)
    ELSE IF rt_has(running_tasks[s], e.name) THEN
        /\ Returned(c, cr)
        /\ last' = [op |-> "already_running", s |-> s, name |-> e.name]
        /\ UNCHANGED <<task, running_tasks, state_snapshot, client>>
    ELSE Spawn(c, cr, s, e)

CreateUnchecked(c, cr, s, e) ==
    IF e.name \notin TaskNames THEN Ignored(c, cr, s, e)
    ELSE IF ~e.valid THEN
        /\ Invalid(c, cr, s, e)
        /\ UNCHANGED <<task, running_tasks, state_snapshot, client>>
    ELSE Spawn(c, cr, s, e)

\* _create_task lines 710-746
_create_task(c, cr, s, e) ==
    IF e.name \notin TaskNames THEN Ignored(c, cr, s, e)
    ELSE IF rt_has(running_tasks[s], e.name) THEN
        /\ Returned(c, cr)
        /\ last' = [op |-> "already_running", s |-> s, name |-> e.name]
        /\ UNCHANGED <<task, running_tasks, state_snapshot, client>>
    ELSE IF ~e.valid THEN
        /\ Invalid(c, cr, s, e)
        /\ UNCHANGED <<task, running_tasks, state_snapshot, client>>
    ELSE Spawn(c, cr, s, e)

Terminal == {"done", "failed", "cancelled"}

CancelSome(c, cr, s, e) ==
    LET named == rt_get(running_tasks[s], e.name)
        h == IF named = None /\ running_tasks[s] # <<>>
             THEN running_tasks[s][1][2] ELSE named
    IN /\ task' = IF h # None /\ task[h].st \notin Terminal
                  THEN [task EXCEPT ![h].cancel = TRUE] ELSE task
       /\ Returned(c, cr)
       /\ last' = IF named = None
                  THEN [op |-> "not_running", s |-> s, name |-> e.name]
                  ELSE last
       /\ UNCHANGED <<running_tasks, state_snapshot, client>>

\* _cancel_task lines 748-753; Task.cancel() on a finished task does nothing
_cancel_task(c, cr, s, e) ==
    LET h == rt_get(running_tasks[s], e.name) IN
    /\ task' = IF h # None /\ task[h].st \notin Terminal
               THEN [task EXCEPT ![h].cancel = TRUE] ELSE task
    /\ Returned(c, cr)
    /\ last' = IF h = None THEN [op |-> "not_running", s |-> s, name |-> e.name]
               ELSE last
    /\ UNCHANGED <<running_tasks, state_snapshot, client>>

\* receive_json returns event e; lines 148-163
Recv(c, e) ==
    /\ conn[c].pc = "recv"
    /\ Alive(transport, conn[c].rt)
    /\ conn[c].n < MaxEvents
    /\ LET cr == [conn[c] EXCEPT !.n = @ + 1]
           name == <<e.type, e.key>>
       IN IF name \notin DOMAIN event_handlers THEN
              /\ Returned(c, cr)
              /\ last' = [op |-> "no_handler", s |-> None]
              /\ UNCHANGED <<task, running_tasks, state_snapshot, client>>
          ELSE LET s == event_handlers[name] IN
              IF e.type = "_ACTION" THEN _handle_action(c, cr, s, e)
              ELSE IF e.type = "_GET" THEN GetHandler(c, cr, s)
              ELSE IF e.type = "_TASK_START" THEN _create_task(c, cr, s, e)
              ELSE _cancel_task(c, cr, s, e)
    /\ UNCHANGED <<ws, ws_lock, transport, event_handlers, init_handlers, reg, obj,
                   last_sync, user, ctxvars>>

\* ------------------------------------------------- inbound binary events
\* an event of the application, registered with Session.register_event, and
\* an event nobody registered
upload_event == <<"UPLOAD", "none">>
stray_event == <<"STRAY", "none">>

Bytes == {"bytes1", "bytes2"}
MetaKeys == {"name", "data"}
MetaValues == {"x", "y"}
\* the metadata objects a client can send: any keys, "data" included
Metadata == UNION {[K -> MetaValues] : K \in SUBSET MetaKeys}

\* {**base, **over}: the later entries win
Merge(base, over) ==
    [k \in DOMAIN base \cup DOMAIN over |-> IF k \in DOMAIN over THEN over[k] ELSE base[k]]

\* the application registers its handler for the binary event
RegisterUpload ==
    /\ upload_event \notin DOMAIN event_handlers
    /\ event_handlers' = register_event(event_handlers, upload_event, None)
    /\ UNCHANGED <<ws, ws_lock, init_handlers, transport, conn, reg, obj, state_snapshot,
                   last_sync, running_tasks, task, client, user, last, ctxvars>>

\* receive_json returns a _BIN_META message: lines 147-154, up to the await
\* of receive_bytes
RecvBinMeta(c, inner, metadata) ==
    /\ conn[c].pc = "recv"
    /\ Alive(transport, conn[c].rt)
    /\ conn[c].n < MaxEvents
    /\ conn' = [conn EXCEPT ![c] = [@ EXCEPT !.pc = "recv_bytes", !.n = @ + 1,
                                             !.event = inner, !.metadata = metadata]]
    /\ UNCHANGED <<ws, ws_lock, transport, state_snapshot, client, last>>
    /\ ConnFrame

\* receive_bytes returns the binary frame: lines 155-163
RecvBytes(c, bindata) ==
    LET data == Merge([k \in {"data"} |-> bindata], conn[c].metadata)
        cr == [conn[c] EXCEPT !.event = <<>>, !.metadata = <<>>]
    IN /\ conn[c].pc = "recv_bytes"
       /\ ws # None /\ Alive(transport, ws)
       /\ IF conn[c].event \in DOMAIN event_handlers
          THEN /\ Suspended(c, cr, "user", event_handlers[conn[c].event])
               /\ last' = [op |-> "dispatch", s |-> None, event |-> conn[c].event,
                           data |-> data]
          ELSE /\ Returned(c, cr)
               /\ last' = [op |-> "no_handler", s |-> None]
       /\ UNCHANGED <<ws, ws_lock, transport, state_snapshot, client>>
       /\ ConnFrame

\* ------------------------------------------------------ Sync._set_state
\* what a client can put under an attribute's key: a value of the attribute's
\* type, the string form of one (which validation converts), or BadValue
\* (which validation rejects)
StrOf(v) == v + MaxVal + 1
BadValue == 2 * MaxVal + 2
RawValues == Values \cup {StrOf(MaxVal)} \cup {BadValue}

\* type_adapters[attr].validate_python, line 584
Validates(raw) == raw \in Values \/ raw - (MaxVal + 1) \in Values
validate_python(raw) == IF raw \in Values THEN raw ELSE raw - (MaxVal + 1)

\* setattr(self.obj, attr_name, value), line 587
setattr(s, ob, attr, v) ==
    IF reg[s].computed
    THEN [ob EXCEPT !["first_name"] = v, !["value"] = v]
    ELSE [ob EXCEPT ![attr] = v]

key_to_attr(s) == [k \in {Case(reg[s].camel, a) : a \in Attrs} |->
                      CHOOSE a \in Attrs : Case(reg[s].camel, a) = k]

task_exposure(s) == IF reg[s].expose THEN Case(reg[s].camel, "running_tasks") ELSE "none"

\* the messages: dicts in iteration order, sequences of <<key, value>> with
\* no key twice; "nope" is a key that is not an observed attribute
\* for a Sync with the given casing
Entries(camel) ==
    ({Case(camel, a) : a \in Attrs} \X RawValues)
        \cup {<<Case(camel, "running_tasks"), <<"T">> >>}
        \cup {<<"nope", 0>>}

Messages(camel) ==
    {m \in UNION {[1..n -> Entries(camel)] : n \in 0..MaxLen} :
        \A i, j \in 1..Len(m) : i # j => m[i][1] # m[j][1]}

AsDict(m) ==
    [k \in {m[i][1] : i \in 1..Len(m)} |->
        m[CHOOSE i \in 1..Len(m) : m[i][1] = k][2]]

RECURSIVE SetLoopSkips(_, _, _)
SetLoopSkips(s, ob, m) ==
    IF m = <<>> THEN [obj |-> ob, raised |-> FALSE]
    ELSE LET key == Head(m)[1]
             val == Head(m)[2]
         IN IF key = task_exposure(s) THEN SetLoopSkips(s, ob, Tail(m))
            ELSE IF key \notin DOMAIN key_to_attr(s) \/ ~Validates(val)
                THEN [obj |-> SetLoopSkips(s, ob, Tail(m)).obj, raised |-> TRUE]
            ELSE SetLoopSkips(s, setattr(s, ob, key_to_attr(s)[key],
                                         validate_python(val)), Tail(m))

RECURSIVE SetLoopBackwards(_, _, _)
SetLoopBackwards(s, ob, m) ==
    IF m = <<>> THEN [obj |-> ob, raised |-> FALSE]
    ELSE LET key == m[Len(m)][1]
             val == m[Len(m)][2]
             rest == SubSeq(m, 1, Len(m) - 1)
         IN IF key = task_exposure(s) THEN SetLoopBackwards(s, ob, rest)
            ELSE IF key \notin DOMAIN key_to_attr(s) \/ ~Validates(val)
                THEN [obj |-> ob, raised |-> TRUE]
            ELSE SetLoopBackwards(s, setattr(s, ob, key_to_attr(s)[key],
                                             validate_python(val)), rest)

\* the loop of lines 574-601 over the entries of m from the target ob: the
\* target it leaves, and whether an entry raised (KeyError of line 578,
\* ValidationError of line 584)
RECURSIVE SetLoop(_, _, _)
SetLoop(s, ob, m) ==
    IF m = <<>> THEN [obj |-> ob, raised |-> FALSE]
    ELSE LET key == Head(m)[1]
             val == Head(m)[2]
         IN IF key = task_exposure(s) THEN SetLoop(s, ob, Tail(m))
            ELSE IF key \notin DOMAIN key_to_attr(s) THEN [obj |-> ob, raised |-> TRUE]
            ELSE IF ~Validates(val) THEN [obj |-> ob, raised |-> TRUE]
            ELSE SetLoop(s, setattr(s, ob, key_to_attr(s)[key], validate_python(val)),
                         Tail(m))

\* Sync._set_state lines 573-603 (it has no await of its own)
_set_state(c, cr, s, m) ==
    LET r == SetLoop(s, obj[s], m) IN
    /\ obj' = [obj EXCEPT ![s] = r.obj]
    /\ IF r.raised
       THEN Raised(c, cr) /\ UNCHANGED state_snapshot
       ELSE Returned(c, cr) /\ state_snapshot' = [state_snapshot EXCEPT ![s] = AsDict(m)]
    /\ last' = [op |-> "set_state", s |-> s, m |-> m, raised |-> r.raised]

\* receive_json returns the event SET of key with data m; lines 148-159
RecvSet(c, key, m) ==
    /\ conn[c].pc = "recv"
    /\ Alive(transport, conn[c].rt)
    /\ conn[c].n < MaxSets
    /\ set_event(key) \in DOMAIN event_handlers
    /\ _set_state(c, [conn[c] EXCEPT !.n = @ + 1], event_handlers[set_event(key)], m)
    /\ UNCHANGED <<ws, ws_lock, transport, event_handlers, init_handlers, reg,
                   last_sync, user, ctxvars, task, running_tasks, client>>

\* ---------------------------------------------------- Sync._patch_state
MaxOps == 2

\* the operations an inbound patch is made of, for a Sync with the given
\* casing: replace, add and remove of an observed key or of "nope", and the
\* list operations on the task exposure; a path is <<key>> or <<key, index>>
PatchOps(camel) ==
    LET wire == {Case(camel, a) : a \in Attrs} \cup {"nope"}
        exposure == Case(camel, "running_tasks")
    IN {[op |-> "replace", path |-> <<k>>, value |-> v] : k \in wire, v \in RawValues}
       \cup {[op |-> "add", path |-> <<k>>, value |-> MaxVal] : k \in wire}
       \cup {[op |-> "remove", path |-> <<k>>, value |-> 0] : k \in wire}
       \cup {[op |-> "add", path |-> <<exposure, 0>>, value |-> "T"],
             [op |-> "remove", path |-> <<exposure, 0>>, value |-> 0]}

Patches(camel) == UNION {[1..n -> PatchOps(camel)] : n \in 0..MaxOps}

\* jsonpatch.apply_patch(self.state_snapshot, patch, in_place=True), line
\* 607: each operation changes the stored dict itself, and the first one
\* that does not apply raises with the earlier ones done
RECURSIVE PatchInPlace(_, _)
PatchInPlace(doc, patch) ==
    IF patch = <<>> THEN [doc |-> doc, raised |-> FALSE]
    ELSE IF ~OpApplies(doc, Head(patch)) THEN [doc |-> doc, raised |-> TRUE]
    ELSE PatchInPlace(ApplyOp(doc, Head(patch)), Tail(patch))

\* only the key of the last operation
ModifiedLast(s, patch) ==
    IF patch = <<>> THEN {}
    ELSE {patch[Len(patch)].path[1]} \cap DOMAIN key_to_attr(s)

\* lines 612-619: the first path segments that are observed keys
modified_keys(s, patch) ==
    {patch[i].path[1] : i \in 1..Len(patch)} \cap DOMAIN key_to_attr(s)

\* the orders a set can be iterated in
Orders(ks) ==
    {q \in [1..Cardinality(ks) -> ks] :
        \A i, j \in 1..Cardinality(ks) : i # j => q[i] # q[j]}

\* the loop of lines 622-649 over the modified keys in the order keys, with
\* the patched snapshot snap: the target it leaves, and whether a key raised
\* (KeyError of line 627, ValidationError of line 630)
RECURSIVE PatchLoop(_, _, _, _)
PatchLoop(s, ob, snap, keys) ==
    IF keys = <<>> THEN [obj |-> ob, raised |-> FALSE]
    ELSE LET key == Head(keys) IN
         IF key = task_exposure(s) THEN PatchLoop(s, ob, snap, Tail(keys))
         ELSE IF key \notin DOMAIN snap THEN [obj |-> ob, raised |-> TRUE]
         ELSE IF ~Validates(snap[key]) THEN [obj |-> ob, raised |-> TRUE]
         ELSE PatchLoop(s, setattr(s, ob, key_to_attr(s)[key],
                                   validate_python(snap[key])), snap, Tail(keys))

\* Sync._patch_state lines 605-649 (it has no await of its own)
_patch_state(c, cr, s, patch) ==
    LET a == PatchInPlace(state_snapshot[s], patch) IN
    /\ state_snapshot' = [state_snapshot EXCEPT ![s] = a.doc]
    /\ IF a.raised
       THEN /\ Raised(c, cr)
            /\ UNCHANGED obj
            /\ last' = [op |-> "patch_state", s |-> s, patch |-> patch,
                        applied |-> FALSE, raised |-> TRUE]
       ELSE \E keys \in Orders(modified_keys(s, patch)) :
                LET r == PatchLoop(s, obj[s], a.doc, keys) IN
                /\ obj' = [obj EXCEPT ![s] = r.obj]
                /\ IF r.raised THEN Raised(c, cr) ELSE Returned(c, cr)
                /\ last' = [op |-> "patch_state", s |-> s, patch |-> patch,
                            applied |-> TRUE, raised |-> r.raised]

\* receive_json returns the event PATCH of key with data patch; lines 148-159
RecvPatch(c, key, patch) ==
    /\ conn[c].pc = "recv"
    /\ Alive(transport, conn[c].rt)
    /\ conn[c].n < MaxSets
    /\ patch_event(key) \in DOMAIN event_handlers
    /\ _patch_state(c, [conn[c] EXCEPT !.n = @ + 1],
                    event_handlers[patch_event(key)], patch)
    /\ UNCHANGED <<ws, ws_lock, transport, event_handlers, init_handlers, reg,
                   last_sync, user, ctxvars, task, running_tasks, client>>

\* what a dispatched handler awaits inside Session.send
SendAwaits == {"sync_send", "start_send", "get_send", "toast_send"}

\* the user's action handler, suspended at an await of its own, goes on
ActReturn(c) ==
    /\ conn[c].pc = "handler" /\ conn[c].h = "user"
    /\ Returned(c, conn[c])
    /\ UNCHANGED <<ws, ws_lock, transport, state_snapshot, client, last>>
    /\ ConnFrame

ActRaise(c) ==
    /\ conn[c].pc = "handler" /\ conn[c].h = "user"
    /\ Raised(c, conn[c])
    /\ UNCHANGED <<ws, ws_lock, transport, state_snapshot, client, last>>
    /\ ConnFrame

ActMutate(c, a, v) ==
    /\ conn[c].pc = "handler" /\ conn[c].h = "user"
    /\ obj[conn[c].hs][a] # v
    /\ obj' = [obj EXCEPT ![conn[c].hs][a] = v]
    /\ UNCHANGED <<ws, ws_lock, event_handlers, init_handlers, transport, conn, reg,
                   state_snapshot, last_sync, running_tasks, task, client, user, ctxvars, last>>

ActSync(c, throttled) ==
    LET s == conn[c].hs IN
    /\ conn[c].pc = "handler" /\ conn[c].h = "user"
    /\ \E ok \in SendOutcomes : sync(s, running_tasks[s], throttled, ok)
    /\ conn' = [conn EXCEPT ![c].h =
                    IF SyncSuspends(s, running_tasks[s], throttled)
                    THEN "sync_send" ELSE "user"]
    /\ UNCHANGED <<ws, ws_lock, event_handlers, init_handlers, transport, reg, obj,
                   last_sync, running_tasks, task, user, ctxvars>>

\* Sync.toast lines 478-502 called by the action handler, up to the await of
\* the send
ActToast(c) ==
    /\ conn[c].pc = "handler" /\ conn[c].h = "user"
    /\ \E ok \in SendOutcomes :
          /\ client' = send(client, transport, ws, toast_event, <<>>, ok)
          /\ last' = [op |-> "toast", s |-> conn[c].hs,
                      sent |-> IF is_connected THEN <<toast_event>> ELSE <<>>,
                      raised |-> SendRaises(transport, ws, ok)]
    /\ conn' = [conn EXCEPT ![c].h = IF is_connected THEN "toast_send" ELSE "user"]
    /\ UNCHANGED <<ws, ws_lock, event_handlers, init_handlers, transport, reg, obj,
                   state_snapshot, last_sync, running_tasks, task, user, ctxvars>>

\* the send awaited by the handler has returned (sync line 439 sets _last_sync)
HandlerSendPropagates(c) ==
    /\ conn[c].pc = "handler" /\ conn[c].h \in SendAwaits
    /\ last_sync' = IF conn[c].h \in {"get_send", "toast_send"} \/ last.raised
                    THEN last_sync
                    ELSE [last_sync EXCEPT ![conn[c].hs] = TRUE]
    /\ IF last.raised THEN Raised(c, conn[c])
       ELSE IF conn[c].h \in {"sync_send", "toast_send"}
           THEN conn' = [conn EXCEPT ![c].h = "user"]
       ELSE Returned(c, conn[c])
    /\ UNCHANGED <<ws, ws_lock, event_handlers, init_handlers, transport, reg, obj,
                   state_snapshot, running_tasks, task, client, user, ctxvars, last>>

HandlerSendDone(c) ==
    /\ conn[c].pc = "handler" /\ conn[c].h \in SendAwaits
    /\ last_sync' = IF conn[c].h \in {"get_send", "toast_send"} THEN last_sync
                    ELSE [last_sync EXCEPT ![conn[c].hs] = TRUE]
    /\ IF conn[c].h \in {"sync_send", "toast_send"}
       THEN conn' = [conn EXCEPT ![c].h = "user"]
       ELSE Returned(c, conn[c])
    /\ UNCHANGED <<ws, ws_lock, event_handlers, init_handlers, transport, reg, obj,
                   state_snapshot, running_tasks, task, client, user, ctxvars, last>>

\* ------------------------------------------------- the task, _run_and_pop
\* handled counts the invocations of the cancel handler of the task.
\* st of a handle: created (create_task was called, the coroutine has not
\* started), running (the task body is suspended at an await of its own),
\* sync_send (the body awaits the send of a sync() it called), oncancel (the
\* except clause awaits the cancel handler), fin_send (the finally clause
\* awaits the send of its sync()), then done, failed or cancelled.
CancelHandlers == {"T"}

TaskFrame ==
    UNCHANGED <<ws, ws_lock, event_handlers, init_handlers, transport, conn, reg, user, ctxvars>>

\* the first step of the task: a cancellation requested before it is thrown
\* into the coroutine before its first statement, none of it runs
TaskFirstStep(h) ==
    /\ task[h].st = "created"
    /\ task' = [task EXCEPT ![h].st = IF task[h].cancel THEN "cancelled" ELSE "running",
                            ![h].cancel = FALSE]
    /\ UNCHANGED <<obj, state_snapshot, last_sync, running_tasks, client, last>>
    /\ TaskFrame

\* the finally clause of _run_and_pop, lines 705-708
_run_and_pop_finally(h, end) ==
    LET s == task[h].s
        rt == rt_pop(running_tasks[s], task[h].name)
    IN /\ running_tasks' = [running_tasks EXCEPT ![s] = rt]
       /\ IF reg[s].expose
          THEN /\ \E ok \in SendOutcomes : sync(s, rt, FALSE, ok)
               /\ task' = [task EXCEPT
                              ![h].st = IF SyncSuspends(s, rt, FALSE) THEN "fin_send" ELSE end,
                              ![h].end = end, ![h].cancel = FALSE]
          ELSE /\ task' = [task EXCEPT ![h].st = end, ![h].end = end, ![h].cancel = FALSE]
               /\ UNCHANGED <<state_snapshot, client, last>>

TaskReturn(h) ==
    /\ task[h].st = "running" /\ ~task[h].cancel
    /\ _run_and_pop_finally(h, "done")
    /\ UNCHANGED <<obj, last_sync>>
    /\ TaskFrame

TaskRaise(h) ==
    /\ task[h].st = "running" /\ ~task[h].cancel
    /\ _run_and_pop_finally(h, "failed")
    /\ UNCHANGED <<obj, last_sync>>
    /\ TaskFrame

\* CancelledError is thrown into the body at its await; lines 699-704
TaskCancelled(h) ==
    /\ task[h].st \in {"running", "sync_send", "bin_meta", "bin_raise", "bin_data"}
    /\ task[h].cancel
    /\ IF task[h].name \in CancelHandlers
       THEN /\ task' = [task EXCEPT ![h].st = "oncancel", ![h].cancel = FALSE,
                                    ![h].handled = @ + 1]
            /\ UNCHANGED <<state_snapshot, running_tasks, client, last>>
       ELSE _run_and_pop_finally(h, "cancelled")
    /\ UNCHANGED <<obj, last_sync>>
    /\ TaskFrame

\* the cancel handler has returned, or a second cancellation interrupts it
OnCancelDone(h) ==
    /\ task[h].st = "oncancel"
    /\ _run_and_pop_finally(h, "cancelled")
    /\ UNCHANGED <<obj, last_sync>>
    /\ TaskFrame

TaskFinDone(h) ==
    /\ task[h].st = "fin_send"
    /\ task' = [task EXCEPT ![h].st = task[h].end]
    /\ last_sync' = [last_sync EXCEPT ![task[h].s] = TRUE]
    /\ UNCHANGED <<obj, state_snapshot, running_tasks, client, last>>
    /\ TaskFrame

TaskMutate(h, a, v) ==
    /\ task[h].st = "running" /\ ~task[h].cancel
    /\ obj[task[h].s][a] # v
    /\ obj' = [obj EXCEPT ![task[h].s][a] = v]
    /\ UNCHANGED <<state_snapshot, last_sync, running_tasks, task, client, last>>
    /\ TaskFrame

TaskSync(h, throttled) ==
    LET s == task[h].s IN
    /\ task[h].st = "running" /\ ~task[h].cancel
    /\ \E ok \in SendOutcomes : sync(s, running_tasks[s], throttled, ok)
    /\ task' = [task EXCEPT ![h].st =
                    IF SyncSuspends(s, running_tasks[s], throttled)
                    THEN "sync_send" ELSE "running"]
    /\ UNCHANGED <<obj, last_sync, running_tasks>>
    /\ TaskFrame

TaskSendDone(h) ==
    /\ task[h].st = "sync_send" /\ ~task[h].cancel
    /\ task' = [task EXCEPT ![h].st = "running"]
    /\ last_sync' = [last_sync EXCEPT ![task[h].s] = TRUE]
    /\ UNCHANGED <<obj, state_snapshot, running_tasks, client, last>>
    /\ TaskFrame

\* Session.send_binary lines 113-123, called by the task body through
\* Sync.send_binary: up to the await of send_json
TaskSendBinary(h) ==
    /\ task[h].st = "running" /\ ~task[h].cancel
    /\ IF ws = None
       THEN /\ last' = [op |-> "binary", s |-> task[h].s, sent |-> <<>>,
                        raised |-> FALSE]
            /\ UNCHANGED <<task, client>>
       ELSE \E ok \in SendOutcomes :
            /\ client' = send(client, transport, ws, bin_meta_event, <<>>, ok)
            /\ last' = [op |-> "binary", s |-> task[h].s, sent |-> <<"meta">>,
                        raised |-> SendRaises(transport, ws, ok)]
            /\ task' = [task EXCEPT ![h].st =
                            IF SendRaises(transport, ws, ok) THEN "bin_raise"
                            ELSE "bin_meta"]
    /\ UNCHANGED <<obj, state_snapshot, last_sync, running_tasks>>
    /\ TaskFrame

\* send_json has returned: line 120 reads self.ws again and awaits send_bytes;
\* with the slot cleared meanwhile the attribute access raises, which the
\* except clause swallows
TaskBinMeta(h) ==
    /\ task[h].st = "bin_meta" /\ ~task[h].cancel
    /\ IF ws = None
       THEN /\ last' = [op |-> "binary", s |-> task[h].s, sent |-> <<>>,
                        raised |-> TRUE]
            /\ task' = [task EXCEPT ![h].st = "running"]
            /\ UNCHANGED client
       ELSE \E ok \in SendOutcomes :
            /\ client' = send(client, transport, ws, bin_meta_event, <<>>, ok)
            /\ last' = [op |-> "binary", s |-> task[h].s, sent |-> <<"bytes">>,
                        raised |-> SendRaises(transport, ws, ok)]
            /\ task' = [task EXCEPT ![h].st =
                            IF SendRaises(transport, ws, ok) THEN "bin_raise"
                            ELSE "bin_data"]
    /\ UNCHANGED <<obj, state_snapshot, last_sync, running_tasks>>
    /\ TaskFrame

\* send_bytes has returned, or the except clause of line 121 has logged the
\* error: send_binary returns to the task body
TaskBinDone(h) ==
    /\ task[h].st \in {"bin_raise", "bin_data"} /\ ~task[h].cancel
    /\ task' = [task EXCEPT ![h].st = "running"]
    /\ UNCHANGED <<obj, state_snapshot, last_sync, running_tasks, client, last>>
    /\ TaskFrame

\* ------------------------------------- Sync construction and deregistration
NoSync ==
    [live |-> FALSE, key |-> "A", send_on_init |-> FALSE, expose |-> FALSE,
     camel |-> FALSE, closed |-> FALSE, computed |-> FALSE]

NewSync(key, soi, expose, camel) ==
    [live |-> TRUE, key |-> key, send_on_init |-> soi, expose |-> expose,
     camel |-> camel, closed |-> FALSE, computed |-> FALSE]

\* the same Sync on a target whose attribute "value" is a computed property
\* with a setter that writes "first_name"
WithComputed(cfg) == [cfg EXCEPT !.computed = TRUE]

\* a registration that leaves out the action and task names
RegisterDeclared(eh, s, key) ==
    register_event(register_event(register_event(eh, get_event(key), s),
        set_event(key), s), patch_event(key), s)

\* _register_event_handlers lines 543-554; the action and task dispatchers
\* are closures and always truthy, so all six names are registered
_register_event_handlers(eh, s, key) ==
    register_event(register_event(register_event(register_event(register_event(
        register_event(eh, get_event(key), s), set_event(key), s),
        patch_event(key), s), action_event(key), s),
        task_start_event(key), s), task_cancel_event(key), s)

RegisterInit(ih, s, soi) == IF soi THEN register_init(ih, s) ELSE ih

RemoveFirst(ih, s) ==
    LET i == CHOOSE j \in 1..Len(ih) : ih[j] = s /\ \A k \in 1..(j - 1) : ih[k] # s
    IN [j \in 1..(Len(ih) - 1) |-> IF j < i THEN ih[j] ELSE ih[j + 1]]

InList(ih, s) == \E j \in 1..Len(ih) : ih[j] = s

DeregisterHalf(eh, ih, s, key, soi) ==
    [eh |-> deregister_event(deregister_event(deregister_event(
                eh, get_event(key)), set_event(key)), patch_event(key)),
     ih |-> ih, raised |-> FALSE]

\* _deregister lines 556-567: names are removed whoever registered them;
\* list.remove raises ValueError when the init handler is not in the list,
\* and the three names after it are then left alone
_deregister(eh, ih, s, key, soi) ==
    LET eh3 == deregister_event(deregister_event(deregister_event(
                   eh, get_event(key)), set_event(key)), patch_event(key))
        eh6 == deregister_event(deregister_event(deregister_event(
                   eh3, action_event(key)), task_start_event(key)), task_cancel_event(key))
    IN IF soi /\ ~InList(ih, s)
       THEN [eh |-> eh3, ih |-> ih, raised |-> TRUE]
       ELSE [eh |-> eh6, ih |-> IF soi THEN RemoveFirst(ih, s) ELSE ih, raised |-> FALSE]

NoUser == [closes |-> 0, pre |-> <<0, 0>>, quiet |-> FALSE, fresh |-> FALSE]

Unquiet(u, s) ==
    [u EXCEPT !.sync = [x \in SyncIds |-> IF x = s THEN @[x] ELSE [@[x] EXCEPT !.quiet = FALSE]]]

\* Sync.__init__ lines 251-416 inside the session context
Construct(s, key, soi, expose, camel) ==
    /\ ~reg[s].live
    /\ \A x \in SyncIds : x < s => reg[x].live
    /\ reg' = [reg EXCEPT ![s] = NewSync(key, soi, expose, camel)]
    /\ state_snapshot' = [state_snapshot EXCEPT
                             ![s] = SnapshotWith(camel, expose, obj[s], <<>>)]
    /\ event_handlers' = _register_event_handlers(event_handlers, s, key)
    /\ init_handlers' = RegisterInit(init_handlers, s, soi)
    /\ user' = [Unquiet(user, s) EXCEPT
                    !.sync[s] = [closes |-> 0,
                            pre |-> <<Cardinality(DOMAIN event_handlers), Len(init_handlers)>>,
                            quiet |-> TRUE,
                            fresh |-> SixEvents(key) \cap DOMAIN event_handlers = {}]]
    /\ last' = [op |-> "construct", s |-> s]
    /\ UNCHANGED <<ws, ws_lock, transport, conn, obj, last_sync, running_tasks, task, client,
                   ctxvars>>

CancelAll(tk, s, rt) ==
    [h \in Handles |->
        IF tk[h].st \notin Terminal \cup {"free"} /\ tk[h].s = s
              /\ rt_get(rt, tk[h].name) = h
        THEN [tk[h] EXCEPT !.cancel = TRUE] ELSE tk[h]]

CloseAlways(s) ==
    /\ reg[s].live
    /\ user.sync[s].closes < MaxCloseCalls
    /\ LET r == _deregister(event_handlers, init_handlers, s, reg[s].key,
                            reg[s].send_on_init)
       IN /\ event_handlers' = r.eh
          /\ init_handlers' = r.ih
          /\ task' = CancelAll(task, s, running_tasks[s])
          /\ last' = [op |-> "close", s |-> s, again |-> reg[s].closed,
                      raised |-> r.raised, eh |-> event_handlers, ih |-> init_handlers]
    /\ reg' = [reg EXCEPT ![s].closed = TRUE]
    /\ user' = [Unquiet(user, s) EXCEPT !.sync[s].closes = @ + 1]
    /\ UNCHANGED <<ws, ws_lock, transport, conn, obj, state_snapshot, last_sync,
                   running_tasks, client, ctxvars>>

\* close(): the first call deregisters and cancels the Sync's tasks, a later
\* call does nothing
Close(s) ==
    /\ reg[s].live
    /\ user.sync[s].closes < MaxCloseCalls
    /\ LET r == _deregister(event_handlers, init_handlers, s, reg[s].key,
                            reg[s].send_on_init)
           first == ~reg[s].closed
       IN /\ event_handlers' = IF first THEN r.eh ELSE event_handlers
          /\ init_handlers' = IF first THEN r.ih ELSE init_handlers
          /\ task' = IF first THEN CancelAll(task, s, running_tasks[s]) ELSE task
          /\ last' = [op |-> "close", s |-> s, again |-> ~first,
                      raised |-> first /\ r.raised,
                      eh |-> event_handlers, ih |-> init_handlers]
    /\ reg' = [reg EXCEPT ![s].closed = TRUE]
    /\ user' = [(IF reg[s].closed THEN user ELSE Unquiet(user, s)) EXCEPT
                    !.sync[s].closes = @ + 1]
    /\ UNCHANGED <<ws, ws_lock, transport, conn, obj, state_snapshot, last_sync,
                   running_tasks, client, ctxvars>>

\* --------------------------------------- sync_key_scope and the contextvars
\* A string is modelled as the sequence of its pieces and an optional string
\* as a sequence of at most one piece: <<>> is Python's None, <<"">> the empty
\* string.  A context variable holds the id of a list object in heap, or None.
Tasks == 0..MaxTasks
Sessions == 1..MaxSessions
Prefixes == {<<>>, <<"">>, <<"a">>, <<"b">>}

\* truth value of a str | None (line 70: if self.prefix)
Truthy(p) == p # <<>> /\ p[1] # ""

\* Session.__init__ lines 30-38, and a Sync that is not constructed
NewSession == [ws |-> None, event_handlers |-> <<>>]

Apart ==
    /\ sessions = [S \in Sessions |-> NewSession]
    /\ session = [s \in SyncIds |-> None]

NoContext == [session_context |-> None, _sync_key_prefix_stack |-> None]
\* exc: "none", "raised" while an exception is propagating, "caught" after
\* an except clause handled one; n counts the blocks the task has entered
NoFrame == [st |-> "free", with |-> <<>>, exc |-> "none", inh |-> <<>>, n |-> 0]

\* _sync_key_prefix_stack.get() read as a list: None and [] behave alike in
\* lines 73 and 105
Deref(h, id) == IF id = None THEN <<>> ELSE h[id]

RECURSIVE Join(_)
Join(stack) ==
    IF Len(stack) = 0 THEN <<"">>
    ELSE IF Len(stack) = 1 THEN <<stack[1]>>
    ELSE Join(SubSeq(stack, 1, Len(stack) - 1)) \o <<"/", stack[Len(stack)]>>

\* get_current_sync_key_prefix lines 89-107
get_current_sync_key_prefix(stack) == IF stack = <<>> THEN <<>> ELSE Join(stack)

\* a prefix stack that uses only the innermost scope
ApplyInnermost(stack, key) ==
    IF stack = <<>> THEN key ELSE <<stack[Len(stack)], "/">> \o key

\* _apply_sync_key_prefix lines 110-123
_apply_sync_key_prefix(stack, key) ==
    LET prefix == get_current_sync_key_prefix(stack)
    IN IF prefix \notin {<<>>, <<"">>} THEN prefix \o <<"/">> \o key ELSE key

ScopeFrame == UNCHANGED <<ws, ws_lock, event_handlers, init_handlers, transport, conn, reg,
                          obj, state_snapshot, last_sync, running_tasks, task, client,
                          user, last, _tokens, sessions, session>>

CanStep(t) == frame[t].st = "run" /\ frame[t].exc # "raised"

\* an __enter__ that appends to the list it found instead of to a copy
EnterInPlace(t, p) ==
    LET cur == context[t]._sync_key_prefix_stack
        new == IF cur = None THEN Len(heap) + 1 ELSE cur
    IN /\ CanStep(t)
       /\ Len(frame[t].with) < MaxDepth /\ frame[t].n < MaxEnters
       /\ Truthy(p) => Len(heap) < MaxLists
       /\ heap' = IF ~Truthy(p) THEN heap
                  ELSE IF cur = None THEN Append(heap, <<p[1]>>)
                  ELSE [heap EXCEPT ![cur] = Append(@, p[1])]
       /\ context' = IF Truthy(p)
                     THEN [context EXCEPT ![t]._sync_key_prefix_stack = new]
                     ELSE context
       /\ frame' = [frame EXCEPT ![t].n = @ + 1, ![t].with = Append(@,
                        [prefix |-> p,
                         token |-> IF Truthy(p) THEN <<[old |-> cur, ctx |-> t]>> ELSE <<>>,
                         saved |-> get_current_sync_key_prefix(Deref(heap, cur))])]
       /\ ScopeFrame

\* `with sync_key_scope(p):` is entered by task t: __init__ and __enter__,
\* lines 64-77
ScopeEnter(t, p) ==
    LET cur == context[t]._sync_key_prefix_stack
    IN /\ CanStep(t)
       /\ Len(frame[t].with) < MaxDepth /\ frame[t].n < MaxEnters
       /\ Truthy(p) => Len(heap) < MaxLists
       /\ heap' = IF Truthy(p) THEN Append(heap, Append(Deref(heap, cur), p[1])) ELSE heap
       /\ context' = IF Truthy(p)
                     THEN [context EXCEPT ![t]._sync_key_prefix_stack = Len(heap) + 1]
                     ELSE context
       /\ frame' = [frame EXCEPT ![t].n = @ + 1, ![t].with = Append(@,
                        [prefix |-> p,
                         token |-> IF Truthy(p) THEN <<[old |-> cur, ctx |-> t]>> ELSE <<>>,
                         saved |-> get_current_sync_key_prefix(Deref(heap, cur))])]
       /\ ScopeFrame

Top(t) == frame[t].with[Len(frame[t].with)]
Pop(t) == [frame EXCEPT ![t].with = SubSeq(@, 1, Len(@) - 1)]

\* an __exit__ that drops the innermost prefix whatever the scope pushed
ExitPops(t) ==
    LET cur == context[t]._sync_key_prefix_stack
    IN /\ frame[t].st = "run" /\ frame[t].with # <<>>
       /\ context' = IF cur = None THEN context
                     ELSE [context EXCEPT ![t]._sync_key_prefix_stack =
                              IF Len(heap[cur]) = 1 THEN None
                              ELSE CHOOSE id \in 1..Len(heap) :
                                      heap[id] = SubSeq(heap[cur], 1, Len(heap[cur]) - 1)]
       /\ frame' = Pop(t)
       /\ UNCHANGED heap
       /\ ScopeFrame

\* the innermost `with sync_key_scope` block of task t is left, normally or
\* by an exception passing through: __exit__, lines 79-86
ScopeExit(t) ==
    /\ frame[t].st = "run" /\ frame[t].with # <<>>
    /\ context' = IF Top(t).token # <<>>
                  THEN [context EXCEPT ![t]._sync_key_prefix_stack = Top(t).token[1].old]
                  ELSE context
    /\ frame' = Pop(t)
    /\ UNCHANGED heap
    /\ ScopeFrame

\* the body of the innermost block raises; __exit__ returns None, so the
\* exception goes on through the enclosing blocks until it is caught
Throw(t) ==
    /\ CanStep(t) /\ frame[t].with # <<>>
    /\ frame' = [frame EXCEPT ![t].exc = "raised"]
    /\ UNCHANGED <<context, heap>>
    /\ ScopeFrame

Catch(t) ==
    /\ frame[t].st = "run" /\ frame[t].exc = "raised"
    /\ frame' = [frame EXCEPT ![t].exc = "caught"]
    /\ UNCHANGED <<context, heap>>
    /\ ScopeFrame

\* the prefixes of the scopes task t is inside, its launcher's first
Entered(t) ==
    frame[t].inh \o [i \in 1..Len(frame[t].with) |->
                        IF "prefix" \in DOMAIN frame[t].with[i]
                        THEN frame[t].with[i].prefix ELSE <<>>]

\* a task that starts with the default context
LaunchFresh(t, u) ==
    /\ CanStep(t) /\ frame[u].st = "free"
    /\ context' = [context EXCEPT ![u] = NoContext]
    /\ frame' = [frame EXCEPT ![u] = [NoFrame EXCEPT !.st = "run", !.inh = Entered(t)]]
    /\ UNCHANGED heap
    /\ ScopeFrame

\* task t creates task u: asyncio runs it in a copy of the creator's context
Launch(t, u) ==
    /\ CanStep(t) /\ frame[u].st = "free"
    /\ context' = [context EXCEPT ![u] = context[t]]
    /\ frame' = [frame EXCEPT ![u] = [NoFrame EXCEPT !.st = "run", !.inh = Entered(t)]]
    /\ UNCHANGED heap
    /\ ScopeFrame

\* ------------------------------------------------ `with session:` blocks
\* the blocks entered by the tasks 0..t together
RECURSIVE EntriesOf(_)
EntriesOf(t) == IF t < 0 THEN 0 ELSE frame[t].n + EntriesOf(t - 1)

SessionFrame == UNCHANGED <<ws, ws_lock, event_handlers, init_handlers, transport, conn,
                            reg, obj, state_snapshot, last_sync, running_tasks, task,
                            client, user, last, heap, sessions, session>>

\* Session.__enter__ lines 184-187 by task t: the token remembers the value
\* it replaced and the context it was made in; id tells the tokens apart
SessionEnter(t, S) ==
    LET old == context[t].session_context
        id == EntriesOf(MaxTasks) + 1
    IN /\ CanStep(t)
       /\ Len(frame[t].with) < MaxDepth /\ frame[t].n < MaxEnters
       /\ context' = [context EXCEPT ![t].session_context = S]
       /\ _tokens' = [_tokens EXCEPT ![S] = Append(@, [old |-> old, ctx |-> t, id |-> id])]
       /\ frame' = [frame EXCEPT ![t].n = @ + 1, ![t].with = Append(@,
                        [ses |-> S, saved |-> old, id |-> id])]
       /\ SessionFrame

\* an __exit__ that unsets the current session
ExitClears(t) ==
    LET S == Top(t).ses
    IN /\ frame[t].st = "run" /\ frame[t].with # <<>>
       /\ _tokens' = [_tokens EXCEPT ![S] = SubSeq(@, 1, Len(@) - 1)]
       /\ context' = [context EXCEPT ![t].session_context = None]
       /\ frame' = Pop(t)
       /\ SessionFrame

\* Session.__exit__ lines 189-197 by task t: the last token of the Session
\* is popped and reset; ContextVar.reset raises ValueError for a token made
\* in another context, and the exception leaves the with statement
SessionExit(t) ==
    LET S == Top(t).ses
        toks == _tokens[S]
    IN /\ frame[t].st = "run" /\ frame[t].with # <<>>
       /\ _tokens' = [_tokens EXCEPT ![S] = SubSeq(@, 1, Len(@) - 1)]
       /\ context' = IF toks # <<>> /\ toks[Len(toks)].ctx = t
                     THEN [context EXCEPT ![t].session_context = toks[Len(toks)].old]
                     ELSE context
       /\ frame' = [Pop(t) EXCEPT ![t].exc =
                        IF toks # <<>> /\ toks[Len(toks)].ctx # t THEN "raised" ELSE @]
       /\ SessionFrame

\* task t constructs Sync s with base key K: line 292
ConstructIn(t, s, K) ==
    /\ CanStep(t)
    /\ context[t].session_context # None
    /\ Construct(s, _apply_sync_key_prefix(Deref(heap, context[t]._sync_key_prefix_stack), K),
                 FALSE, FALSE, FALSE)

\* ---------------------------------------------------------- initial states
NewTransport == [app |-> "NEW", peer |-> TRUE, bye |-> FALSE]

FreeTask ==
    [st |-> "free", s |-> None, name |-> "none", cancel |-> FALSE, end |-> "none",
     handled |-> 0]

NoOp == [op |-> "none", s |-> None]

RECURSIVE RegisterAll(_, _)
RegisterAll(cfg, n) ==
    IF n = 0 THEN <<>>
    ELSE _register_event_handlers(RegisterAll(cfg, n - 1), n, cfg[n].key)

RECURSIVE InitAll(_, _)
InitAll(cfg, n) ==
    IF n = 0 THEN <<>> ELSE RegisterInit(InitAll(cfg, n - 1), n, cfg[n].send_on_init)

\* the Session after the Syncs cfg[1], cfg[2], ... were constructed in order:
\* before any connection (w = None), or with transport w attached and its
\* receive loop waiting for the first event
Built(cfg, w, faults) ==
    /\ ws = w
    /\ ws_lock = None
    /\ event_handlers = RegisterAll(cfg, Len(cfg))
    /\ init_handlers = InitAll(cfg, Len(cfg))
    /\ transport = [t \in Transports |->
                       IF t = w THEN [NewTransport EXCEPT !.app = "CONNECTED"]
                       ELSE NewTransport]
    /\ conn = [c \in Transports |->
                  IF c = w THEN [IdleConn EXCEPT !.pc = "recv", !.rt = w, !.onc = 1]
                  ELSE IdleConn]
    /\ reg = [s \in SyncIds |-> IF s <= Len(cfg) THEN cfg[s] ELSE NoSync]
    /\ obj = [s \in SyncIds |-> [a \in Attrs |-> 0]]
    /\ state_snapshot = [s \in SyncIds |->
                            IF s <= Len(cfg)
                            THEN SnapshotWith(cfg[s].camel, cfg[s].expose,
                                              [a \in Attrs |-> 0], <<>>)
                            ELSE <<>>]
    /\ last_sync = [s \in SyncIds |-> FALSE]
    /\ running_tasks = [s \in SyncIds |-> <<>>]
    /\ task = [h \in Handles |-> FreeTask]
    /\ client = [t \in Transports |-> [k \in Keys |-> NoDoc]]
    /\ user = [faults |-> faults, sync |-> [s \in SyncIds |-> NoUser]]
    /\ last = NoOp

\* no task has entered a Session or a key scope
Outside ==
    /\ context = [t \in Tasks |-> NoContext]
    /\ frame = [t \in Tasks |-> NoFrame]
    /\ _tokens = [S \in Sessions |-> <<>>]
    /\ heap = <<>>
    /\ Apart

Constructed(cfg, w, faults) == Built(cfg, w, faults) /\ Outside

\* -------------------------------------------------- several Sessions
\* each Session has its own ws and event_handlers (session.py 30-33); the
\* transport of Session S is the WebSocket S
ApartFrame == UNCHANGED <<ws, ws_lock, event_handlers, init_handlers, conn, last_sync,
                          running_tasks, task, user, context, frame, _tokens, heap>>

\* Sync.__init__ by task t: self.session is the Session current in t (lines
\* 317-318, the assertion fails with none), and the handlers are registered
\* on that Session (416, 543-554)
ConstructUnder(t, s, key) ==
    LET S == context[t].session_context IN
    /\ CanStep(t)
    /\ S # None
    /\ session[s] = None
    /\ session' = [session EXCEPT ![s] = S]
    /\ sessions' = [sessions EXCEPT ![S].event_handlers =
                       _register_event_handlers(@, s, key)]
    /\ reg' = [reg EXCEPT ![s] = NewSync(key, FALSE, FALSE, FALSE)]
    /\ state_snapshot' = [state_snapshot EXCEPT
                             ![s] = SnapshotWith(FALSE, FALSE, obj[s], <<>>)]
    /\ last' = [op |-> "construct", s |-> s]
    /\ UNCHANGED <<transport, obj, client>>
    /\ ApartFrame

\* new_connection of Session S with its WebSocket: self.ws = ws, line 74
Attach(S) ==
    /\ sessions[S].ws = None
    /\ sessions' = [sessions EXCEPT ![S].ws = S]
    /\ transport' = [transport EXCEPT ![S] = [NewTransport EXCEPT !.app = "CONNECTED"]]
    /\ UNCHANGED <<reg, obj, state_snapshot, client, last, session>>
    /\ ApartFrame

\* the finally clause of handle_connection of Session S: lines 174-181
Detach(S) ==
    /\ sessions[S].ws # None
    /\ sessions' = [sessions EXCEPT ![S].ws = None]
    /\ transport' = [transport EXCEPT ![S].app = "DISCONNECTED"]
    /\ UNCHANGED <<reg, obj, state_snapshot, client, last, session>>
    /\ ApartFrame

\* the receive loop of Session S dispatches event e (lines 148-159): the
\* handler of GET is _send_state, which sends on the Session of its Sync
\* (sync.py 569-571); the handler of ACTION assigns v to an attribute
Deliver(S, e, v) ==
    LET eh == sessions[S].event_handlers IN
    /\ sessions[S].ws # None
    /\ IF e \notin DOMAIN eh
       THEN /\ last' = [op |-> "no_handler", s |-> None]
            /\ UNCHANGED <<obj, state_snapshot, client>>
       ELSE LET s == eh[e] IN
            IF e[1] = "_GET"
            THEN /\ _send_state(s, sessions[session[s]].ws, transport, TRUE)
                 /\ UNCHANGED obj
            ELSE /\ obj' = [obj EXCEPT ![s]["value"] = v]
                 /\ last' = [op |-> "dispatch", s |-> s, on |-> S, event |-> e]
                 /\ UNCHANGED <<state_snapshot, client>>
    /\ UNCHANGED <<reg, transport, sessions, session>>
    /\ ApartFrame

\* a sync() that sends on the Session current in the calling task
SyncFromCurrent(t, s) ==
    LET S == context[t].session_context
        w == IF S = None THEN None ELSE sessions[S].ws
        new == _snapshot(s)
        patch == make_patch(state_snapshot[s], new)
    IN /\ CanStep(t)
       /\ session[s] # None
       /\ state_snapshot' = IF w = None THEN state_snapshot
                            ELSE [state_snapshot EXCEPT ![s] = new]
       /\ client' = IF w = None \/ patch = <<>> THEN client
                    ELSE send(client, transport, w, patch_event(reg[s].key), patch, TRUE)
       /\ last' = [op |-> "sync_on", s |-> s, to |-> w,
                   current |-> context[t].session_context,
                   sent |-> IF w = None \/ patch = <<>> THEN <<>> ELSE <<patch>>]
       /\ UNCHANGED <<reg, obj, transport, sessions, session>>
       /\ ApartFrame

\* Sync.sync lines 419-439 called by task t, whatever Session is current in
\* it: is_connected and send are those of self.session
SyncFrom(t, s) ==
    LET w == sessions[session[s]].ws
        new == _snapshot(s)
        patch == make_patch(state_snapshot[s], new)
    IN /\ CanStep(t)
       /\ session[s] # None
       /\ state_snapshot' = IF w = None THEN state_snapshot
                            ELSE [state_snapshot EXCEPT ![s] = new]
       /\ client' = IF w = None \/ patch = <<>> THEN client
                    ELSE send(client, transport, w, patch_event(reg[s].key), patch, TRUE)
       /\ last' = [op |-> "sync_on", s |-> s, to |-> w,
                   current |-> context[t].session_context,
                   sent |-> IF w = None \/ patch = <<>> THEN <<>> ELSE <<patch>>]
       /\ UNCHANGED <<reg, obj, transport, sessions, session>>
       /\ ApartFrame

\* ------------------------------------ Syncs constructed inside key scopes
InitScope ==
    /\ Built(<<>>, None, FALSE)
    /\ context = [t \in Tasks |-> IF t = 0 THEN [NoContext EXCEPT !.session_context = 1]
                                  ELSE NoContext]
    /\ frame = [t \in Tasks |-> IF t = 0 THEN [NoFrame EXCEPT !.st = "run"] ELSE NoFrame]
    /\ _tokens = [S \in Sessions |-> <<>>]
    /\ heap = <<>>
    /\ Apart

NextScope ==
    \/ \E p \in Prefixes : ScopeEnter(0, p)
    \/ ScopeExit(0)
    \/ Throw(0)
    \/ Catch(0)
    \/ \E s \in SyncIds : ConstructIn(0, s, <<"A">>)

SpecScope == InitScope /\ [][NextScope]_vars

\* ------------------------------------------- key scopes in concurrent tasks
InheritEnter(t, p) == EntriesOf(MaxTasks) < MaxEnters /\ ScopeEnter(t, p)

NextInherit ==
    \/ \E t \in Tasks : \E p \in Prefixes : InheritEnter(t, p)
    \/ \E t \in Tasks : ScopeExit(t)
    \/ \E t \in Tasks : \E u \in Tasks : Launch(t, u)

SpecInherit == InitScope /\ [][NextInherit]_vars

\* ------------------------------------------- binary events of one client
InitBin == Constructed(<<NewSync("A", FALSE, FALSE, FALSE)>>, 1, FALSE)

NextBin ==
    \/ RegisterUpload
    \/ \E inner \in {upload_event, stray_event} : \E metadata \in Metadata :
          RecvBinMeta(1, inner, metadata)
    \/ \E bindata \in Bytes : RecvBytes(1, bindata)
    \/ ActReturn(1)

SpecBin == InitBin /\ [][NextBin]_vars

\* ------------------------------------- Sessions entered by concurrent tasks
InitWith ==
    /\ Built(<<>>, None, FALSE)
    /\ context = [t \in Tasks |-> NoContext]
    /\ frame = [t \in Tasks |-> IF t = 0 THEN [NoFrame EXCEPT !.st = "run"] ELSE NoFrame]
    /\ _tokens = [S \in Sessions |-> <<>>]
    /\ heap = <<>>
    /\ Apart

WithEnter(t, S) == EntriesOf(MaxTasks) < MaxEnters /\ SessionEnter(t, S)

NextWith ==
    \/ \E t \in Tasks : \E S \in Sessions : WithEnter(t, S)
    \/ \E t \in Tasks : SessionExit(t)
    \/ \E t \in Tasks : Catch(t)
    \/ \E t \in Tasks : \E u \in Tasks : Launch(t, u)

SpecWith == InitWith /\ [][NextWith]_vars

\* ------------------------------------- two Sessions used by one task
ApartEvents == {get_event(k) : k \in Keys} \cup {action_event(k) : k \in Keys}

\* `with S:` blocks one after the other
ApartEnter(S) == frame[0].with = <<>> /\ WithEnter(0, S)

NextApart ==
    \/ \E S \in Sessions : ApartEnter(S)
    \/ SessionExit(0)
    \/ \E s \in SyncIds : \E k \in Keys : ConstructUnder(0, s, k)
    \/ \E S \in Sessions : Attach(S)
    \/ \E S \in Sessions : Detach(S)
    \/ \E S \in Sessions : \E e \in ApartEvents : \E v \in Values : Deliver(S, e, v)
    \/ \E s \in SyncIds : SyncFrom(0, s)

SpecApart == InitWith /\ [][NextApart]_vars

\* ------------------------------------------- the connection lifecycle alone
ConnEvents ==
    [type : {"_ACTION", "_NOPE"}, key : {"A"}, name : {"act"}, valid : BOOLEAN]

InitConn ==
    Constructed(<<NewSync("A", TRUE, FALSE, FALSE), NewSync("B", TRUE, FALSE, FALSE)>>,
                None, FALSE)

NextConn ==
    \/ \E c \in Transports : HandleConnection(c)
    \/ \E c \in Transports : NcAcquire(c)
    \/ \E c \in Transports : NcSent(c)
    \/ \E c \in Transports : NcClosed(c)
    \/ \E c \in Transports : NcAccepted(c)
    \/ \E c \in Transports : NcInitResume(c)
    \/ \E c \in Transports : OnConnect(c)
    \/ \E c \in Transports : \E e \in ConnEvents : Recv(c, e)
    \/ \E c \in Transports : ActReturn(c)
    \/ \E c \in Transports : ActRaise(c)
    \/ \E c \in Transports : RecvDisconnect(c)
    \/ \E t \in Transports : PeerDrop(t)
    \/ \E c \in Transports : Cleanup(c)
    \/ \E c \in Transports : Closed(c)

SpecConn == InitConn /\ [][NextConn]_vars

\* ----------------------------------------- tasks on one attached connection
TaskEvents ==
    [type : {"_TASK_START", "_TASK_CANCEL"}, key : Keys,
     name : TaskNames \cup {Undeclared}, valid : BOOLEAN]
    \cup [type : {"_ACTION", "_NOPE"}, key : {"A"}, name : {"act", Undeclared},
          valid : BOOLEAN]

InitTask ==
    Constructed(<<NewSync("A", FALSE, TRUE, FALSE), NewSync("B", FALSE, FALSE, FALSE)>>,
                1, FALSE)

NextTask ==
    \/ \E e \in TaskEvents : Recv(1, e)
    \/ HandlerSendDone(1)
    \/ ActReturn(1)
    \/ \E h \in Handles : TaskFirstStep(h)
    \/ \E h \in Handles : TaskReturn(h)
    \/ \E h \in Handles : TaskRaise(h)
    \/ \E h \in Handles : TaskCancelled(h)
    \/ \E h \in Handles : OnCancelDone(h)
    \/ \E h \in Handles : TaskFinDone(h)
    \/ PeerDrop(1)
    \/ RecvDisconnect(1)
    \/ Cleanup(1)
    \/ Closed(1)

SpecTask == InitTask /\ [][NextTask]_vars

\* ------------------------------------- construction and close of the Syncs
InitReg == Constructed(<<>>, None, FALSE)

NextReg ==
    \/ \E s \in SyncIds : \E key \in Keys : \E soi \in BOOLEAN :
          Construct(s, key, soi, FALSE, FALSE)
    \/ \E s \in SyncIds : Close(s)

SpecReg == InitReg /\ [][NextReg]_vars

\* ------------- a second Sync constructed while the connection dispatches
DupEvents ==
    [type : {"_GET", "_ACTION", "_TASK_START", "_TASK_CANCEL"}, key : Keys,
     name : {"act", "T"}, valid : {TRUE}]

InitDup == Constructed(<<NewSync("A", TRUE, FALSE, FALSE)>>, 1, FALSE)

NextDup ==
    \/ \E key \in Keys : \E soi \in BOOLEAN : Construct(2, key, soi, FALSE, FALSE)
    \/ \E e \in DupEvents : Recv(1, e)
    \/ HandlerSendDone(1)
    \/ ActReturn(1)
    \/ \E h \in Handles : TaskFirstStep(h)
    \/ \E h \in Handles : TaskReturn(h)
    \/ \E h \in Handles : TaskCancelled(h)
    \/ \E h \in Handles : OnCancelDone(h)

SpecDup == InitDup /\ [][NextDup]_vars

\* ------------------ close() of a Sync whose action handler goes on syncing
ClosedEvents == [type : {"_ACTION"}, key : {"A"}, name : {"act"}, valid : {TRUE}]

InitClosed == Constructed(<<NewSync("A", TRUE, FALSE, FALSE)>>, 1, FALSE)

NextClosed ==
    \/ \E e \in ClosedEvents : Recv(1, e)
    \/ \E a \in Attrs : \E v \in Values : ActMutate(1, a, v)
    \/ \E throttled \in BOOLEAN : ActSync(1, throttled)
    \/ ActToast(1)
    \/ HandlerSendDone(1)
    \/ ActReturn(1)
    \/ Close(1)

SpecClosed == InitClosed /\ [][NextClosed]_vars

\* ------------------------- sync() from action handlers and tasks, one peer
SyncEvents ==
    [type : {"_GET", "_ACTION"}, key : {"A"}, name : {"act"}, valid : {TRUE}]
    \cup [type : {"_TASK_START"}, key : {"A"}, name : {"T"}, valid : {TRUE}]

InitSync == Constructed(<<NewSync("A", FALSE, TRUE, TRUE)>>, 1, TRUE)

NextSync ==
    \/ \E e \in SyncEvents : Recv(1, e)
    \/ HandlerSendDone(1)
    \/ \E a \in Attrs : \E v \in Values : ActMutate(1, a, v)
    \/ \E throttled \in BOOLEAN : ActSync(1, throttled)
    \/ ActReturn(1)
    \/ \E h \in Handles : TaskFirstStep(h)
    \/ \E h \in Handles : \E a \in Attrs : \E v \in Values : TaskMutate(h, a, v)
    \/ \E h \in Handles : \E throttled \in BOOLEAN : TaskSync(h, throttled)
    \/ \E h \in Handles : TaskSendDone(h)
    \/ \E h \in Handles : TaskReturn(h)
    \/ \E h \in Handles : TaskFinDone(h)
    \/ PeerDrop(1)
    \/ RecvDisconnect(1)
    \/ Cleanup(1)
    \/ Closed(1)

SpecSync == InitSync /\ [][NextSync]_vars

\* ------------------------------------------- sends on a failing transport
InitSend == Constructed(<<NewSync("A", FALSE, TRUE, TRUE)>>, 1, TRUE)

NextSend ==
    \/ \E e \in SyncEvents : Recv(1, e)
    \/ HandlerSendDone(1)
    \/ \E a \in Attrs : \E v \in Values : ActMutate(1, a, v)
    \/ ActSync(1, FALSE)
    \/ ActToast(1)
    \/ ActReturn(1)
    \/ \E h \in Handles : TaskFirstStep(h)
    \/ \E h \in Handles : TaskSync(h, FALSE)
    \/ \E h \in Handles : TaskSendDone(h)
    \/ \E h \in Handles : TaskSendBinary(h)
    \/ \E h \in Handles : TaskBinMeta(h)
    \/ \E h \in Handles : TaskBinDone(h)
    \/ \E h \in Handles : TaskReturn(h)
    \/ \E h \in Handles : TaskFinDone(h)
    \/ PeerDrop(1)
    \/ RecvDisconnect(1)
    \/ Cleanup(1)
    \/ Closed(1)

SpecSend == InitSend /\ [][NextSend]_vars

\* --------------------------------------------------- SET from the client
InitSet ==
    Constructed(<<WithComputed(NewSync("A", FALSE, TRUE, TRUE)),
                  NewSync("B", FALSE, FALSE, FALSE)>>, 1, FALSE)

MessagesA == Messages(TRUE)
MessagesB == Messages(FALSE)

NextSet ==
    \/ \E m \in MessagesA : RecvSet(1, "A", m)
    \/ \E m \in MessagesB : RecvSet(1, "B", m)
    \/ PeerDrop(1)
    \/ RecvDisconnect(1)
    \/ Cleanup(1)
    \/ Closed(1)

SpecSet == InitSet /\ [][NextSet]_vars

\* inbound PATCH events on one connection
InitPatch ==
    Constructed(<<NewSync("A", FALSE, TRUE, TRUE),
                  NewSync("B", FALSE, FALSE, FALSE)>>, 1, FALSE)

PatchesA == Patches(TRUE)
PatchesB == Patches(FALSE)

\* an action of the application that changes the target and does not sync
PatchEvents == [type : {"_ACTION"}, key : {"A"}, name : {"act"}, valid : {TRUE}]

NextPatch ==
    \/ \E p \in PatchesA : RecvPatch(1, "A", p)
    \/ \E p \in PatchesB : RecvPatch(1, "B", p)
    \/ \E e \in PatchEvents : Recv(1, e)
    \/ \E a \in Attrs : \E v \in Values : ActMutate(1, a, v)
    \/ ActReturn(1)
    \/ PeerDrop(1)
    \/ RecvDisconnect(1)
    \/ Cleanup(1)
    \/ Closed(1)

SpecPatch == InitPatch /\ [][NextPatch]_vars

\* ------------------------------------------------------------------ claims
Handling == {c \in Transports : conn[c].pc = "handler"}

\* C1: two events received on one connection are handled one after the other:
\* no two dispatched handlers of events of the same transport run at once.
C1_OneHandlerAtATime ==
    \A c1, c2 \in Handling : c1 # c2 => conn[c1].rt # conn[c2].rt

\* the dispatched handler raises: the user's handler, or the validation of
\* the action's kwargs
HandlerRaises(c) ==
    \/ ActRaise(c)
    \/ \E e \in ConnEvents : e.type = "_ACTION" /\ ~e.valid /\ Recv(c, e)

\* C2: when a dispatched handler raises while its transport is attached and
\* connected, the receive loop goes on to the next receive and the transport
\* stays attached.
C2_RaiseKeepsLoop ==
    [][\A c \in Transports :
          (HandlerRaises(c) /\ ws = conn[c].rt /\ transport[ws].app = "CONNECTED")
          => (conn'[c].pc = "recv" /\ ws' = ws)]_vars

NcPcs == {"idle", "nc_lock", "nc_send", "nc_close", "nc_accept", "nc_init"}

NcReturns(c) == conn[c].pc \in NcPcs /\ conn'[c].pc \in {"on_connect", "unattached"}

\* C6: when new_connection(c) returns, c is the attached transport, it is no
\* longer CONNECTING, every init handler was invoked once in registration
\* order, and a transport that was attached at the call was sent _DISCONNECT
\* and closed.
C6_NewConnection ==
    [][\A c \in Transports :
          (NcReturns(c) /\ conn'[c].old # None) =>
              /\ ws' = c
              /\ transport'[c].app # "CONNECTING"
              /\ conn'[c].inits = init_handlers
              /\ transport'[conn'[c].old].bye
              /\ transport'[conn'[c].old].app = "DISCONNECTED"]_vars

\* the task body or its cancel handler has not finished
Active == {"created", "running", "sync_send", "oncancel"}

\* C3: a handle that has terminated (completed, failed, cancelled) is no
\* longer the entry of its name in running_tasks.
C3_TerminatedIsPopped ==
    \A h \in Handles :
        task[h].st \in Terminal => rt_get(running_tasks[task[h].s], task[h].name) # h

\* C4: running_tasks has one entry per name, and no two handles of one name
\* of one Sync are active (body or cancel handler not finished) at once.
C4_OneTaskPerName ==
    /\ \A s \in SyncIds : \A i, j \in 1..Len(running_tasks[s]) :
          running_tasks[s][i][1] = running_tasks[s][j][1] => i = j
    /\ \A h1, h2 \in Handles :
          (/\ h1 # h2
           /\ task[h1].st \in Active /\ task[h2].st \in Active
           /\ task[h1].s = task[h2].s) => task[h1].name # task[h2].name

\* a TASK_START for a name whose cancel handler is executing was turned down
C4_Witness ==
    /\ last.op = "already_running"
    /\ \E h \in Handles :
          /\ task[h].st = "oncancel"
          /\ task[h].s = last.s /\ task[h].name = last.name

\* C5: the step that dispatches a TASK_START and creates the handle leaves
\* the task unfinished and the receive loop free: back at its receive (or
\* ending), or awaiting only the send of the task-exposure PATCH.
C5_StartDoesNotWait ==
    [][\A c \in Transports : \A h \in Handles :
          (conn[c].pc = "recv" /\ conn'[c].n = conn[c].n + 1
           /\ task[h].st = "free" /\ task'[h].st # "free")
          => /\ task'[h].st = "created"
             /\ \/ conn'[c].pc \in {"recv", "finally"}
                \/ conn'[c].pc = "handler" /\ conn'[c].h = "start_send"]_vars

\* two tasks of different names run while an ACTION handler executes
C5_Witness ==
    /\ \E c \in Transports : conn[c].pc = "handler" /\ conn[c].h = "user"
    /\ \E h1, h2 \in Handles :
          /\ task[h1].st = "running" /\ task[h2].st = "running"
          /\ task[h1].name # task[h2].name /\ task[h1].s = task[h2].s

\* another Sync of the Session was constructed with the key of s
SharedKey(s) == \E x \in SyncIds \ {s} : reg[x].live /\ reg[x].key = reg[s].key

AfterClose(s) ==
    /\ SixEvents(reg[s].key) \cap DOMAIN event_handlers = {}
    /\ reg[s].send_on_init => ~InList(init_handlers, s)
    /\ user.sync[s].quiet =>
          /\ Cardinality(DOMAIN event_handlers) = user.sync[s].pre[1]
          /\ Len(init_handlers) = user.sync[s].pre[2]

C9_SyncEmitsPatch ==
    (last.op = "sync" /\ ~last.skipped) =>
        /\ Len(last.sent) = (IF last.new = last.prev THEN 0 ELSE 1)
        /\ last.sent # <<>> => apply_patch(last.prev, last.sent[1]) = last.new
        /\ state_snapshot[last.s] = last.new

C9_Witness ==
    /\ last.op = "sync" /\ ~last.skipped
    /\ Len(last.sent) = 1 /\ Len(last.sent[1]) >= 2
    /\ \E h \in Handles : task[h].st = "sync_send"

\* C10: while a peer that has received a SET of the key is attached, the
\* document it holds is the stored snapshot of the Sync.
C10_SnapshotIsClientState ==
    \A s \in SyncIds :
        (/\ reg[s].live /\ ws # None /\ Alive(transport, ws)
         /\ client[ws][reg[s].key].has)
        => client[ws][reg[s].key].doc = state_snapshot[s]

\* the wire name of the exposed running-tasks list of Sync s
Exposure(s) == Case(reg[s].camel, "running_tasks")

InSeq(q, x) == \E i \in 1..Len(q) : q[i] = x

TaskStarts(h) == task[h].st = "free" /\ task'[h].st = "created"

TaskEnds(h) == task[h].st \in Active /\ task'[h].st \notin Active

\* the operation recorded in l is a sync() of Sync s that handed a PATCH to
\* the Session, the exposed list holding name before it iff was
ListPatch(l, s, name, was) ==
    /\ l.op = "sync" /\ l.s = s /\ ~l.skipped /\ l.sent # <<>>
    /\ InSeq(l.prev[Exposure(s)], name) = was
    /\ InSeq(l.new[Exposure(s)], name) = ~was

\* C11: with task exposure on and the Session connected, the step that
\* creates the handle of T sends a PATCH adding T to the exposed list, and the
\* step in which T ends (completed, failed, cancelled) sends a PATCH removing
\* T from a list that held it.
C11_TaskPatches ==
    [][\A h \in Handles :
          /\ (TaskStarts(h) /\ reg[task'[h].s].expose /\ is_connected)
                => ListPatch(last', task'[h].s, task'[h].name, FALSE)
          /\ (TaskEnds(h) /\ reg[task[h].s].expose /\ is_connected)
                => ListPatch(last', task[h].s, task[h].name, TRUE)]_vars

\* C12: a handle that ended cancelled, of a task name with a cancel handler,
\* had that handler invoked exactly once; and a handle whose cancel handler
\* was invoked ends cancelled.
C12_CancelHandlerOnce ==
    \A h \in Handles :
        /\ (task[h].st = "cancelled" /\ task[h].name \in CancelHandlers)
              => task[h].handled = 1
        /\ (task[h].st \in Terminal /\ task[h].handled > 0)
              => (task[h].st = "cancelled" /\ task[h].handled = 1)

\* the validation of the kwargs of event e is reached and fails
FailsValidation(c, e) ==
    /\ ~e.valid
    /\ <<e.type, e.key>> \in DOMAIN event_handlers
    /\ \/ e.type = "_ACTION" /\ e.name \in ActionNames
       \/ /\ e.type = "_TASK_START" /\ e.name \in TaskNames
          /\ ~rt_has(running_tasks[event_handlers[<<e.type, e.key>>]], e.name)
    /\ Recv(c, e)

\* C13: an ACTION or TASK_START whose kwargs fail validation raises out of
\* the dispatch; no user handler is awaited, no handle is created, and the
\* targets, the handles and running_tasks are as before the message.
C13_InvalidKwargs ==
    [][\A c \in Transports : \A e \in TaskEvents :
          FailsValidation(c, e) =>
              /\ conn'[c].pc = "finally"
              /\ last'.op = "validation_error"
              /\ obj' = obj /\ task' = task /\ running_tasks' = running_tasks
              /\ state_snapshot' = state_snapshot]_vars

C13_Witness ==
    /\ last.op = "validation_error" /\ last.name \in TaskNames
    /\ \E c \in Transports : conn[c].pc = "finally" /\ conn[c].n = 2
    /\ \E h \in Handles : task[h].st = "running"
    /\ ~rt_has(running_tasks[last.s], last.name)

\* init handler number conn'[c].idx is invoked by the call for transport c
InitStep(c) ==
    /\ conn[c].pc \in NcPcs /\ conn'[c].pc = "nc_init"
    /\ conn'[c].idx = conn[c].idx + 1

\* an event read from transport c is dispatched, by whichever receive loop
Dispatches(c) ==
    \E x \in Transports : \E e \in ConnEvents : conn[x].rt = c /\ Recv(x, e)

\* C14: on a connection handled by handle_connection(c) every Sync with
\* send_on_init sends one SET of its key with its state serialized at that
\* moment to transport c, in registration order, and no event read from c
\* is dispatched before all of them were sent.
C14_InitBeforeDispatch ==
    [][\A c \in Transports :
          /\ InitStep(c) =>
                LET s == init_handlers[conn'[c].idx] IN
                /\ ws' = c
                /\ last'.op = "set" /\ last'.s = s
                /\ last'.sent = <<_snapshot(s)>>
          /\ NcReturns(c) => conn'[c].inits = init_handlers
          /\ Dispatches(c) => conn[c].pc \notin NcPcs]_vars

\* the finally clause of the call for c clears the slot
LoopEnds(c) == conn[c].pc = "finally" /\ conn'[c].pc \in {"closing", "done"}

\* handle_connection(c) returns after its receive loop
Returns(c) == conn[c].pc \in {"finally", "closing"} /\ conn'[c].pc = "done"

C16_GetSendsFresh ==
    [][\A e \in SyncEvents :
          (e.type = "_GET" /\ Recv(1, e)) =>
              LET s == event_handlers[<<"_GET", e.key>>]
                  now == SnapshotOf(s, obj[s], running_tasks[s])
              IN /\ last'.op = "set" /\ last'.s = s
                 /\ last'.sent = <<now>>
                 /\ state_snapshot'[s] = now
                 /\ reg[s].expose => now[Exposure(s)] = rt_names(running_tasks[s])
                 /\ \A a \in Attrs : now[Case(reg[s].camel, a)] = obj[s][a]]_vars

C16_Witness ==
    /\ last.op = "set" /\ last.prev # last.new
    /\ last.new[Exposure(last.s)] # <<>>
    /\ conn[1].pc = "handler" /\ conn[1].h = "get_send"
    /\ state_snapshot[last.s] = last.new

\* entry e of a message raises in the loop of _set_state
Fails(s, e) ==
    /\ e[1] # task_exposure(s)
    /\ e[1] \notin DOMAIN key_to_attr(s) \/ ~Validates(e[2])

\* the entries of es are attribute entries; the target they are expected to
\* leave from ob: every attribute named holds the validated value of its
\* entry and the others are as in ob; on a target whose "value" is the
\* computed attribute writing "first_name", both hold the last value written
Expected(s, ob, es) ==
    IF reg[s].computed
    THEN IF es = <<>> THEN ob
         ELSE [a \in Attrs |-> validate_python(es[Len(es)][2])]
    ELSE [a \in Attrs |->
             IF \E i \in 1..Len(es) : key_to_attr(s)[es[i][1]] = a
             THEN validate_python(
                      es[CHOOSE i \in 1..Len(es) : key_to_attr(s)[es[i][1]] = a][2])
             ELSE ob[a]]

AttrEntries(s, m) == SelectSeq(m, LAMBDA e : e[1] # task_exposure(s))

\* the step is the dispatch of a SET
SetStep == conn'[1].n = conn[1].n + 1 /\ last'.op = "set_state"

\* C17: a SET whose entries all succeed assigns the attributes in the order
\* of the message (so that of a computed attribute and the field it writes
\* the later entry wins), skips the task-exposure entry, and stores the
\* message as the snapshot.
C17_SetAssignsInOrder ==
    [][(SetStep /\ \A i \in 1..Len(last'.m) : ~Fails(last'.s, last'.m[i])) =>
          LET s == last'.s
              m == last'.m
          IN /\ obj'[s] = Expected(s, obj[s], AttrEntries(s, m))
             /\ \A x \in SyncIds \ {s} : obj'[x] = obj[x]
             /\ running_tasks' = running_tasks
             /\ state_snapshot'[s] = AsDict(m)
             /\ conn'[1].pc = "recv"]_vars

C17_Witness ==
    /\ last.op = "set_state" /\ ~last.raised /\ reg[last.s].computed
    /\ Len(last.m) = 3 /\ last.m[1][1] = "value" /\ last.m[2][1] = "runningTasks"
    /\ DOMAIN state_snapshot[last.s] = {"firstName", "value", "runningTasks"}
    /\ validate_python(state_snapshot[last.s]["firstName"])
           # validate_python(state_snapshot[last.s]["value"])
    /\ state_snapshot[last.s]["runningTasks"] # rt_names(running_tasks[last.s])
    /\ obj[last.s]["value"] # 0

\* the validation of entry j of m fails and no earlier entry raises
ValidationFailsAt(s, m, j) ==
    /\ m[j][1] \in DOMAIN key_to_attr(s) /\ ~Validates(m[j][2])
    /\ \A i \in 1..(j - 1) : ~Fails(s, m[i])

\* C18: when the validation of an entry of a SET fails the error leaves the
\* handler, the attributes of the earlier entries hold their new values, the
\* attribute of the failing entry and of the later entries are not assigned,
\* and the stored snapshot is unchanged.
C18_SetFailsPartway ==
    [][\A j \in 1..MaxLen :
          (SetStep /\ j <= Len(last'.m) /\ ValidationFailsAt(last'.s, last'.m, j)) =>
              LET s == last'.s
                  m == last'.m
              IN /\ conn'[1].pc = "finally"
                 /\ obj'[s] = Expected(s, obj[s], AttrEntries(s, SubSeq(m, 1, j - 1)))
                 /\ \A x \in SyncIds \ {s} : obj'[x] = obj[x]
                 /\ state_snapshot' = state_snapshot]_vars

C18_Witness ==
    /\ last.op = "set_state" /\ last.raised /\ ~reg[last.s].computed
    /\ Len(last.m) >= 2 /\ ValidationFailsAt(last.s, last.m, 2)
    /\ conn[1].pc = "finally"
    /\ obj[last.s][key_to_attr(last.s)[last.m[1][1]]] # 0
    /\ obj[last.s][key_to_attr(last.s)[last.m[2][1]]] = 0
    /\ \A k \in DOMAIN state_snapshot[last.s] : state_snapshot[last.s][k] = 0

\* no handler is registered for the event, or it is an ACTION whose name is
\* not a declared action
Unhandled(e) ==
    \/ <<e.type, e.key>> \notin DOMAIN event_handlers
    \/ e.type = "_ACTION" /\ e.name \notin ActionNames

\* C19: an event without a registered handler and an ACTION with an
\* undeclared name await no handler, change nothing of the Session, the
\* Syncs, the targets and the tasks, send nothing, and the loop goes on to
\* the next receive.
C19_UnknownIgnored ==
    [][\A e \in TaskEvents :
          (Unhandled(e) /\ Recv(1, e)) =>
              /\ conn'[1].pc = "recv" /\ conn'[1].h = "none"
              /\ conn'[1].rt = conn[1].rt
              /\ UNCHANGED <<ws, ws_lock, transport, event_handlers, init_handlers,
                             reg, obj, state_snapshot, last_sync, running_tasks,
                             task, client>>]_vars

C19_Witness ==
    /\ \/ last.op = "no_handler"
       \/ last.op = "ignored" /\ last.type = "_ACTION"
    /\ conn[1].pc = "recv" /\ conn[1].n = 2
    /\ \E h \in Handles : task[h].st = "running"

\* the dispatch of e finds the handler of a Sync and the handler refuses: a
\* TASK_START of an undeclared name or of a name in running_tasks, or a
\* TASK_CANCEL of a name not in running_tasks
Refused(e) ==
    /\ <<e.type, e.key>> \in DOMAIN event_handlers
    /\ LET rt == running_tasks[event_handlers[<<e.type, e.key>>]] IN
       \/ e.type = "_TASK_START" /\ (e.name \notin TaskNames \/ rt_has(rt, e.name))
       \/ e.type = "_TASK_CANCEL" /\ ~rt_has(rt, e.name)

\* C20: a refused TASK_START or TASK_CANCEL leaves running_tasks and every
\* handle as they are (none created, none cancelled) and sends no PATCH:
\* the handler returns without a sync.
C20_RefusedTaskEvents ==
    [][\A e \in TaskEvents :
          (Refused(e) /\ Recv(1, e)) =>
              /\ running_tasks' = running_tasks /\ task' = task
              /\ client' = client /\ state_snapshot' = state_snapshot
              /\ last'.op \in {"ignored", "already_running", "not_running"}
              /\ conn'[1].pc = "recv"]_vars

C20_Witness ==
    /\ last.op = "already_running"
    /\ \E h \in Handles :
          /\ task[h].st = "running" /\ task[h].name = last.name /\ task[h].s = last.s
          /\ rt_get(running_tasks[last.s], last.name) = h
    /\ \E h \in Handles : task[h].st = "free"
    /\ conn[1].pc = "recv"

\* what a task body awaits inside Session.send or Session.send_binary
TaskSendAwaits == {"sync_send", "bin_meta", "bin_raise", "bin_data"}

\* the operations that call Session.send or Session.send_binary
SendOps == {"set", "sync", "toast", "binary"}

\* C21: an error raised by the transport while sending stays inside send
\* and send_binary: the handler or task that awaits the send (sync, toast,
\* GET, send_binary, the sync of the task wrapper) goes on as after a send
\* that worked, the handler table, the init handlers and the slot are
\* unchanged, and with no transport attached nothing is transmitted.
C21_SendErrorsSwallowed ==
    [][/\ \A c \in Transports :
             (conn[c].pc = "handler" /\ conn[c].h \in SendAwaits /\ conn'[c] # conn[c])
             => \/ conn'[c].pc = "recv"
                \/ conn'[c].pc = "handler" /\ conn'[c].h = "user"
       /\ \A h \in Handles :
             /\ (task[h].st \in TaskSendAwaits /\ task'[h] # task[h])
                   => task'[h].st \in {"running", "bin_data", "bin_raise"}
             /\ (task[h].st = "fin_send" /\ task'[h] # task[h])
                   => task'[h].st = "done"
       /\ (last' # last /\ last'.op \in SendOps /\ last'.raised)
             => /\ event_handlers' = event_handlers
                /\ init_handlers' = init_handlers
                /\ ws' = ws /\ client' = client
       /\ (last' # last /\ last'.op \in SendOps /\ ws = None)
             => (last'.sent = <<>> /\ client' = client)]_vars

C21_Witness ==
    /\ last.op = "toast" /\ last.raised /\ Alive(transport, 1)
    /\ conn[1].pc = "handler" /\ conn[1].h = "user"
    /\ \E h \in Handles : task[h].st = "bin_raise"

\* C22: while a dispatched user handler is executing (on a worker thread
\* when it is synchronous, awaited by the loop through nonblock_call either
\* way) the Session dispatches no further inbound event: no receive loop of
\* the Session takes an event before the handler has returned.
C22_NoDispatchWhileHandling ==
    [][\A x \in Transports : \A e \in ConnEvents :
          (\E c \in Transports : conn[c].pc = "handler" /\ conn[c].h = "user")
              => ~Recv(x, e)]_vars

\* the step that constructs Sync s
Constructs(s) == ~reg[s].live /\ reg'[s].live

\* C23: constructing a Sync with final key K puts exactly the six event
\* names built from K into the handler table, all bound to the new Sync,
\* appends one init handler when send_on_init is set and none otherwise, and
\* leaves the handlers registered under other names as they were.
C23_ConstructRegisters ==
    [][\A s \in SyncIds : Constructs(s) =>
          LET six == SixEvents(reg'[s].key) IN
          /\ DOMAIN event_handlers' = DOMAIN event_handlers \cup six
          /\ \A e \in six : event_handlers'[e] = s
          /\ \A e \in DOMAIN event_handlers \ six : event_handlers'[e] = event_handlers[e]
          /\ init_handlers' = IF reg'[s].send_on_init
                                 THEN Append(init_handlers, s) ELSE init_handlers]_vars

C23_Witness ==
    /\ last.op = "construct" /\ last.s = 2
    /\ reg[1].key # reg[2].key
    /\ reg[2].send_on_init /\ ~reg[1].send_on_init
    /\ Cardinality(DOMAIN event_handlers) = 12
    /\ init_handlers = <<2>>

\* the Sync constructed last with key K
Later(K) ==
    CHOOSE s \in SyncIds : /\ reg[s].live /\ reg[s].key = K
                           /\ \A x \in SyncIds : (reg[x].live /\ reg[x].key = K) => x <= s

C25_NoSendAfterClose ==
    [][\A s \in SyncIds :
          (reg[s].closed /\ last' # last /\ last'.op \in {"sync", "toast"} /\ last'.s = s)
              => (last'.sent = <<>> /\ client' = client)]_vars

\* the prefix task t sees: get_current_sync_key_prefix() called by it
Seen(t) == get_current_sync_key_prefix(Deref(heap, context[t]._sync_key_prefix_stack))

\* the non-empty prefixes of ps, each followed by '/'
RECURSIVE Slashed(_)
Slashed(ps) ==
    IF ps = <<>> THEN <<>>
    ELSE IF Head(ps) = <<>> THEN Slashed(Tail(ps))
    ELSE IF Head(ps)[1] = "" THEN Slashed(Tail(ps))
    ELSE <<Head(ps)[1], "/">> \o Slashed(Tail(ps))

\* C26: a Sync constructed with base key K inside nested key scopes gets the
\* key made of the non-empty prefixes in nesting order, each followed by
\* '/', and then K (K itself when no prefix is non-empty), and its six event
\* names are built from that key.
C26_PrefixedKey ==
    [][\A s \in SyncIds : Constructs(s) =>
          LET key == Slashed(Entered(0)) \o <<"A">> IN
          /\ reg'[s].key = key
          /\ DOMAIN event_handlers' = DOMAIN event_handlers \cup SixEvents(key)
          /\ \A e \in SixEvents(key) : event_handlers'[e] = s]_vars

C26_Witness ==
    /\ last.op = "construct" /\ last.s = 2
    /\ reg[1].key = <<"A">>
    /\ reg[2].key = <<"a", "/", "b", "/", "A">>
    /\ Entered(0) = <<<<"a">>, <<"">>, <<"b">>>>
    /\ get_event(<<"a", "/", "b", "/", "A">>) \in DOMAIN event_handlers

C28_PerTaskStack ==
    [][/\ \A t \in Tasks : \A u \in Tasks : Launch(t, u) => Seen(u)' = Seen(t)
       /\ \A t \in Tasks :
             (frame[t].st = "run" /\ frame'[t] = frame[t]) => Seen(t)' = Seen(t)]_vars

C28_Witness ==
    /\ frame[1].st = "run" /\ frame[1].inh = <<<<"a">>>>
    /\ frame[1].with = <<>> /\ frame[1].n = 1 /\ Seen(1) = <<"a">>
    /\ frame[0].with = <<>> /\ frame[0].n = 1 /\ Seen(0) = <<>>
    /\ frame[2].st = "run" /\ frame[2].inh = <<<<"a">>, <<"b">>>>
    /\ Seen(2) = <<"a", "/", "b">>

\* the innermost block of task t holds the last token of its Session: the
\* entries of that Session made since, by any task, have been left
Nested(t) ==
    LET toks == _tokens[Top(t).ses]
    IN toks # <<>> /\ toks[Len(toks)].id = Top(t).id

\* C29: entering a Session makes it the current session of the entering
\* task; leaving a block that is properly nested (the Session's later
\* entries have all been left) raises nothing and makes current again the
\* session, or none, that was current before that entry; this holds for the
\* same and for different Sessions and for a Session entered again.
C29_WithRestores ==
    [][\A t \in Tasks :
          /\ Len(frame'[t].with) > Len(frame[t].with)
                => context'[t].session_context = frame'[t].with[Len(frame'[t].with)].ses
          /\ (Len(frame'[t].with) < Len(frame[t].with) /\ Nested(t))
                => /\ context'[t].session_context = Top(t).saved
                   /\ frame'[t].exc = frame[t].exc]_vars

C29_Witness ==
    /\ frame[0].n = 3 /\ Len(frame[0].with) = 1
    /\ frame[0].with[1].ses = 1 /\ frame[0].with[1].saved = None
    /\ context[0].session_context = 1
    /\ frame[0].exc = "none"
    /\ _tokens = [S \in Sessions |-> IF S = 1 THEN <<[old |-> None, ctx |-> 0, id |-> 1]>>
                                      ELSE <<>>]

\* C30: a _BIN_META message invokes no handler by itself; the binary frame
\* read next is handed, in the same dispatch, to the handler registered for
\* the inner type, once, with the metadata fields and a `data` field that
\* holds the received bytes, whatever keys the metadata has.
C30_BinaryDispatch ==
    [][/\ (conn[1].pc = "recv" /\ conn'[1].pc = "recv_bytes") => last' = last
       /\ \A bindata \in Bytes :
             (RecvBytes(1, bindata) /\ conn[1].event \in DOMAIN event_handlers)
                => /\ conn'[1].pc = "handler" /\ conn'[1].h = "user"
                   /\ last'.op = "dispatch" /\ last'.event = conn[1].event
                   /\ DOMAIN last'.data = DOMAIN conn[1].metadata \cup {"data"}
                   /\ last'.data["data"] = bindata
                   /\ \A k \in DOMAIN conn[1].metadata \ {"data"} :
                         last'.data[k] = conn[1].metadata[k]]_vars

\* the handle_connection calls that are inside their receive loop
Looping == {c \in Transports : conn[c].pc \in {"recv", "recv_bytes", "handler"}}

\* C31: at most one receive loop of the Session is receiving or dispatching
\* at any time, and a loop reads only from the transport its own call
\* attached: the loop of a replaced transport never reads the new one.
C31_OneReceiveLoop ==
    /\ Cardinality(Looping) <= 1
    /\ \A c \in Looping : conn[c].rt = c

\* C32: when the handle_connection call of a replaced transport ends while
\* another transport is attached, its cleanup leaves the slot and the
\* attached transport alone.
C32_CleanupSparesNew ==
    [][\A c \in Transports :
          (conn[c].pc = "finally" /\ conn'[c].pc # "finally" /\ ws # None /\ ws # c)
              => (ws' = ws /\ transport'[ws] = transport[ws])]_vars

\* C33: closing (deregistering) a Sync removes no handler that another
\* Sync holds: every event name bound to another Sync stays bound to it.
C33_CloseSparesLater ==
    [][\A s \in SyncIds :
          (~reg[s].closed /\ reg'[s].closed) =>
              \A e \in DOMAIN event_handlers :
                  event_handlers[e] # s =>
                      (e \in DOMAIN event_handlers' /\ event_handlers'[e] = event_handlers[e])]_vars

\* the tasks whose _BIN_META preamble was transmitted and whose binary frame
\* was not yet
MetaSent == {h \in Handles : task[h].st = "bin_meta"}

\* C34: between a _BIN_META preamble and its binary frame no other message
\* of the Session is transmitted: while a preamble waits for its frame, the
\* only message that goes out is that frame.
C34_BinaryFramesAdjacent ==
    [][(/\ MetaSent # {}
        /\ last' # last /\ last'.op \in SendOps
        /\ last'.sent # <<>> /\ ~last'.raised)
          => (/\ Cardinality(MetaSent) = 1
              /\ last'.op = "binary" /\ last'.sent = <<"bytes">>)]_vars

\* a step of RecvPatch: an event was received and _patch_state ran to its end
PatchStep ==
    /\ conn'[1].n = conn[1].n + 1
    /\ conn'[1].pc # "handler"
    /\ last'.op = "patch_state"

\* C35: a PATCH whose sequence of operations fails at some operation leaves
\* the stored snapshot exactly what it was before the message and assigns no
\* attribute of the target.
C35_FailedPatchKeepsSnapshot ==
    [][(PatchStep /\ ~last'.applied) =>
          (state_snapshot' = state_snapshot /\ obj' = obj)]_vars

Touched(patch) == {patch[i].path[1] : i \in 1..Len(patch)}

\* the attributes of Sync s whose wire key is the first path segment of an
\* operation of patch
TouchedAttrs(s, patch) ==
    {a \in Attrs : Case(reg[s].camel, a) \in Touched(patch)}

\* the operations of patch apply to doc and leave a value that validates
\* under every touched observed key
PatchSucceeds(s, doc, patch) ==
    /\ PatchApplies(doc, patch)
    /\ \A a \in TouchedAttrs(s, patch) :
          LET k == Case(reg[s].camel, a) IN
          /\ k \in DOMAIN apply_patch(doc, patch)
          /\ Validates(apply_patch(doc, patch)[k])

SuppressedSync == last' # last /\ last'.op = "sync" /\ last'.skipped

\* C37: a sync() with no attached transport, or throttled by if_since_last,
\* sends nothing and leaves the stored snapshot and the time of the last
\* emitting sync unchanged.
C37_SuppressedSyncIsNoOp ==
    [][/\ SuppressedSync =>
            /\ last'.sent = <<>> /\ ~last'.raised
            /\ client' = client
            /\ state_snapshot' = state_snapshot
            /\ last_sync' = last_sync
            /\ obj' = obj
       /\ (last' # last /\ last'.op = "sync" /\ ws = None) => last'.skipped]_vars

\* a throttled sync() on an attached transport while the target differs from
\* the stored snapshot
C37_Witness ==
    /\ last.op = "sync" /\ last.skipped
    /\ ws # None /\ last_sync[last.s]
    /\ last.new # last.prev
    /\ state_snapshot[last.s] = last.prev

\* a sync() that is neither disconnected nor throttled and is the next
\* operation of its Sync after a suppressed sync(): no GET, SET, PATCH or
\* init send came in between, the target may have been changed
SyncAfterSuppressed ==
    /\ last.op = "sync" /\ last.skipped
    /\ last' # last /\ last'.op = "sync" /\ last'.s = last.s /\ ~last'.skipped

\* C38: a suppressed sync() loses no change: the next sync() of the Sync that
\* is neither disconnected nor throttled still finds the snapshot the
\* suppressed call found, sends nothing if the target serializes to it and
\* otherwise hands the Session one patch that takes that snapshot to the
\* current serialized state, which becomes the stored snapshot.
C38_SuppressedChangeIsSent ==
    [][SyncAfterSuppressed =>
          LET s == last'.s
              cur == last'.new
          IN /\ state_snapshot[s] = last.prev
             /\ \A a \in Attrs : cur[Case(reg[s].camel, a)] = obj[s][a]
             /\ IF cur = last.prev THEN last'.sent = <<>>
                ELSE /\ Len(last'.sent) = 1
                     /\ PatchApplies(last.prev, last'.sent[1])
                     /\ apply_patch(last.prev, last'.sent[1]) = cur
             /\ state_snapshot'[s] = cur]_vars

\* an emitting sync() right after a suppressed one, carrying a change of an
\* attribute the suppressed call did not send
C38_Witness ==
    /\ last.op = "sync" /\ ~last.skipped /\ last.after_skip
    /\ Len(last.sent) = 1
    /\ \E a \in Attrs :
          last.prev[Case(reg[last.s].camel, a)] # obj[last.s][a]

\* task t leaves its innermost `with session` block
Leaves(t) == Len(frame'[t].with) < Len(frame[t].with)

\* C39: when tasks enter the same Session and leave it in any order, each
\* exit raises nothing, resets the token its own entry pushed and makes
\* current again, in the leaving task, what was current before that entry.
C39_ExitInAnyOrder ==
    [][\A t \in Tasks :
          Leaves(t) =>
              /\ frame'[t].exc = frame[t].exc
              /\ context'[t].session_context = Top(t).saved
              /\ LET toks == _tokens[Top(t).ses]
                 IN toks # <<>> /\ toks[Len(toks)].id = Top(t).id]_vars

\* C40: Sessions are isolated: every handler registered on a Session belongs
\* to a Sync constructed under it, so an event of Session S2 never invokes a
\* handler of a Sync of S1; a sync() sends on the transport of the Session
\* its Sync was constructed under, whichever Session is current in the
\* caller; and the peer of a Session holds, for a key, the snapshot of a Sync
\* of that Session.
C40_SessionsIsolated ==
    /\ \A S \in Sessions : \A e \in DOMAIN sessions[S].event_handlers :
          session[sessions[S].event_handlers[e]] = S
    /\ last.op = "dispatch" => session[last.s] = last.on
    /\ (last.op = "sync_on" /\ last.sent # <<>>) => last.to = session[last.s]
    /\ \A S \in Sessions : \A k \in Keys :
          client[S][k].has =>
              \E s \in SyncIds :
                  /\ session[s] = S /\ reg[s].key = k
                  /\ client[S][k].doc = state_snapshot[s]

\* both Sessions attached, a Sync of the same key under each; the task is
\* inside `with` of Session 2 and its sync() of the Sync of Session 1 sent a
\* PATCH to transport 1, which the peer of Session 1 applied
C40_Witness ==
    /\ session = <<1, 2>> /\ reg[1].key = reg[2].key
    /\ sessions[1].ws = 1 /\ sessions[2].ws = 2
    /\ context[0].session_context = 2
    /\ last.op = "sync_on" /\ last.s = 1 /\ last.current = 2 /\ last.to = 1
    /\ last.sent # <<>>
    /\ client[1][reg[1].key].has /\ client[2][reg[2].key].has
    /\ client[1][reg[1].key].doc # client[2][reg[2].key].doc
====
